---------------------------- MODULE Spec2Model ----------------------------
(***************************************************************************)
(* Argument expansion of the fish shell (src/src/expand.cpp).              *)
(*                                                                         *)
(* A string (wcstring) is a sequence of characters; a character is a       *)
(* one-letter TLA+ string, and the reserved code points of the expansion   *)
(* core are the named strings below.  Positions are 0-based as in the      *)
(* source; At(s, i) reads position i.                                      *)
(***************************************************************************)
EXTENDS Integers, Sequences, FiniteSets, TLC

(***************************************************************************)
(* The sentinel alphabet (expand.h / wildcard.h, spec section 3).          *)
(***************************************************************************)
HOME_DIRECTORY == "HOME_DIRECTORY"
PROCESS_EXPAND_SELF == "PROCESS_EXPAND_SELF"
VARIABLE_EXPAND == "VARIABLE_EXPAND"
VARIABLE_EXPAND_SINGLE == "VARIABLE_EXPAND_SINGLE"
VARIABLE_EXPAND_EMPTY == "VARIABLE_EXPAND_EMPTY"
BRACE_BEGIN == "BRACE_BEGIN"
BRACE_END == "BRACE_END"
BRACE_SEP == "BRACE_SEP"
BRACE_SPACE == "BRACE_SPACE"
INTERNAL_SEPARATOR == "INTERNAL_SEPARATOR"
ANY_CHAR == "ANY_CHAR"
ANY_STRING == "ANY_STRING"
ANY_STRING_RECURSIVE == "ANY_STRING_RECURSIVE"

WildcardSentinels == {ANY_CHAR, ANY_STRING, ANY_STRING_RECURSIVE}

Sentinels ==
    {HOME_DIRECTORY, PROCESS_EXPAND_SELF, VARIABLE_EXPAND, VARIABLE_EXPAND_SINGLE,
     VARIABLE_EXPAND_EMPTY, BRACE_BEGIN, BRACE_END, BRACE_SEP, BRACE_SPACE,
     INTERNAL_SEPARATOR} \cup WildcardSentinels

(***************************************************************************)
(* expand_result_t and the parse error codes.                              *)
(***************************************************************************)
ok == "ok"
error == "error"
wildcard_no_match == "wildcard_no_match"
wildcard_match == "wildcard_match"

parse_error_syntax == "parse_error_syntax"
parse_error_cmdsubst == "parse_error_cmdsubst"
SOURCE_LOCATION_UNKNOWN == -1

(***************************************************************************)
(* completion_t flags.                                                     *)
(***************************************************************************)
COMPLETE_REPLACES_TOKEN == "COMPLETE_REPLACES_TOKEN"
COMPLETE_DONT_ESCAPE_TILDES == "COMPLETE_DONT_ESCAPE_TILDES"

(***************************************************************************)
(* String helpers (std::wstring operations used by the source).            *)
(***************************************************************************)
At(s, i) == s[i + 1]

\* wcstring(s, pos, n): at most n characters of s from position pos.
Substr(s, pos, n) ==
    IF pos >= Len(s) \/ n <= 0 THEN <<>>
    ELSE SubSeq(s, pos + 1, IF pos + n > Len(s) THEN Len(s) ELSE pos + n)

\* s.append(t, pos, npos): the tail of s from position pos.
Tail0(s, pos) == IF pos >= Len(s) THEN <<>> ELSE SubSeq(s, pos + 1, Len(s))

Back(s) == s[Len(s)]

Contains(s, cs) == \E i \in 1..Len(s) : s[i] \in cs

string_prefixes_string(proposed_prefix, value) ==
    /\ Len(proposed_prefix) <= Len(value)
    /\ SubSeq(value, 1, Len(proposed_prefix)) = proposed_prefix

string_suffixes_string(proposed_suffix, value) ==
    /\ Len(proposed_suffix) <= Len(value)
    /\ SubSeq(value, Len(value) - Len(proposed_suffix) + 1, Len(value)) = proposed_suffix

RECURSIVE Concat(_)
Concat(ss) == IF ss = <<>> THEN <<>> ELSE Head(ss) \o Concat(Tail(ss))

\* join_strings(vals, sep)
RECURSIVE join_strings(_, _)
join_strings(vals, sep) ==
    IF vals = <<>> THEN <<>>
    ELSE IF Len(vals) = 1 THEN vals[1]
    ELSE vals[1] \o <<sep>> \o join_strings(Tail(vals), sep)

\* A completion with default flags, as append_completion(out, str) makes it.
Comp(str) == [completion |-> str, flags |-> {}]

Strings(cs) == [i \in 1..Len(cs) |-> cs[i].completion]


(***************************************************************************)
(* Character classes of the C library and of common.cpp.                   *)
(***************************************************************************)
NUL == "NUL"

\* in[pos] on a C string: the terminating null past the end.
CharAt(s, i) == IF i >= 0 /\ i < Len(s) THEN s[i + 1] ELSE NUL

Digits == {"0", "1", "2", "3", "4", "5", "6", "7", "8", "9"}

DigitValue(c) ==
    CASE c = "0" -> 0 [] c = "1" -> 1 [] c = "2" -> 2 [] c = "3" -> 3 [] c = "4" -> 4
      [] c = "5" -> 5 [] c = "6" -> 6 [] c = "7" -> 7 [] c = "8" -> 8 [] c = "9" -> 9

Letters ==
    {"a", "b", "c", "d", "e", "f", "g", "h", "i", "j", "k", "l", "m", "n", "o", "p", "q",
     "r", "s", "t", "u", "v", "w", "x", "y", "z", "H", "O", "M", "E", "P", "A", "T", "C", "D"}

iswspace(c) == c \in {" ", "\t", "\n"}

\* valid_var_name_char: alphanumerics and the underscore.
valid_var_name_char(c) == c \in Letters \cup Digits \cup {"_"}

(***************************************************************************)
(* unescape_string(input, UNESCAPE_SPECIAL | UNESCAPE_INCOMPLETE): the     *)
(* conversion from user syntax to sentinel form (spec section 4.3).        *)
(* mode is the quoting state, bc the count of open braces.                 *)
(***************************************************************************)
RECURSIVE unescape_loop(_, _, _, _, _)
unescape_loop(in, i, mode, res, bc) ==
    IF i >= Len(in) THEN res
    ELSE
      LET c == At(in, i)
          n == CharAt(in, i + 1)
      IN
      IF mode = "unquoted" THEN
        CASE c = "\\" ->
               IF n = NUL THEN unescape_loop(in, i + 1, mode, res, bc)
               ELSE unescape_loop(in, i + 2, mode, res \o <<INTERNAL_SEPARATOR, n>>, bc)
          [] c = "~" /\ i = 0 ->
               unescape_loop(in, i + 1, mode, Append(res, HOME_DIRECTORY), bc)
          [] c = "%" /\ i = 0 /\ Substr(in, 1, 4) = <<"s", "e", "l", "f">> ->
               unescape_loop(in, i + 5, mode, Append(res, PROCESS_EXPAND_SELF), bc)
          [] c = "*" ->
               IF res # <<>> /\ Back(res) = ANY_STRING
               THEN unescape_loop(in, i + 1, mode,
                                  Append(SubSeq(res, 1, Len(res) - 1), ANY_STRING_RECURSIVE), bc)
               ELSE unescape_loop(in, i + 1, mode, Append(res, ANY_STRING), bc)
          [] c = "?" -> unescape_loop(in, i + 1, mode, Append(res, ANY_CHAR), bc)
          [] c = "$" -> unescape_loop(in, i + 1, mode, Append(res, VARIABLE_EXPAND), bc)
          [] c = "{" -> unescape_loop(in, i + 1, mode, Append(res, BRACE_BEGIN), bc + 1)
          [] c = "}" -> unescape_loop(in, i + 1, mode, Append(res, BRACE_END), bc - 1)
          [] c = "," /\ bc > 0 -> unescape_loop(in, i + 1, mode, Append(res, BRACE_SEP), bc)
          [] c = " " /\ bc > 0 -> unescape_loop(in, i + 1, mode, Append(res, BRACE_SPACE), bc)
          [] c = "'" -> unescape_loop(in, i + 1, "single", Append(res, INTERNAL_SEPARATOR), bc)
          [] c = "\"" -> unescape_loop(in, i + 1, "double", Append(res, INTERNAL_SEPARATOR), bc)
          [] OTHER -> unescape_loop(in, i + 1, mode, Append(res, c), bc)
      ELSE IF mode = "single" THEN
        CASE c = "\\" /\ n \in {"\\", "'"} ->
               unescape_loop(in, i + 2, mode, Append(res, n), bc)
          [] c = "'" -> unescape_loop(in, i + 1, "unquoted", Append(res, INTERNAL_SEPARATOR), bc)
          [] OTHER -> unescape_loop(in, i + 1, mode, Append(res, c), bc)
      ELSE
        CASE c = "\\" /\ n \in {"\\", "$", "\""} ->
               unescape_loop(in, i + 2, mode, Append(res, n), bc)
          [] c = "\"" -> unescape_loop(in, i + 1, "unquoted", Append(res, INTERNAL_SEPARATOR), bc)
          [] c = "$" -> unescape_loop(in, i + 1, mode, Append(res, VARIABLE_EXPAND_SINGLE), bc)
          [] OTHER -> unescape_loop(in, i + 1, mode, Append(res, c), bc)

unescape_string(input) == unescape_loop(input, 0, "unquoted", <<>>, 0)

(***************************************************************************)
(* fish_wcstol(&in[pos], &end): white space, an optional sign, digits,     *)
(* white space.  err is errno > 0: no digit could be read.                 *)
(***************************************************************************)
RECURSIVE SkipSpace(_, _)
SkipSpace(in, pos) == IF iswspace(CharAt(in, pos)) THEN SkipSpace(in, pos + 1) ELSE pos

RECURSIVE ReadDigits(_, _, _)
ReadDigits(in, pos, acc) ==
    IF CharAt(in, pos) \in Digits
    THEN ReadDigits(in, pos + 1, [val |-> acc.val * 10 + DigitValue(CharAt(in, pos)),
                                  end |-> pos + 1])
    ELSE acc

fish_wcstol(in, pos) ==
    LET p0 == SkipSpace(in, pos)
        neg == CharAt(in, p0) = "-"
        p1 == IF CharAt(in, p0) \in {"-", "+"} THEN p0 + 1 ELSE p0
        d == ReadDigits(in, p1, [val |-> 0, end |-> p1])
    IN IF CharAt(in, p0) = NUL \/ d.end = p1
       THEN [val |-> 0, end |-> p0, err |-> TRUE]
       ELSE [val |-> IF neg THEN 0 - d.val ELSE d.val, end |-> SkipSpace(in, d.end),
             err |-> FALSE]

(***************************************************************************)
(* parse_slice(in, &end, idx, array_size).  `in` is the string from the    *)
(* opening bracket on; the result is the bad position (0 on success), the  *)
(* 1-based indices and the position just past the closing bracket.         *)
(***************************************************************************)
RECURSIVE SkipSep(_, _)
SkipSep(in, pos) ==
    IF CharAt(in, pos) = INTERNAL_SEPARATOR THEN SkipSep(in, pos + 1) ELSE pos

RECURSIVE SkipSpaceSep(_, _)
SkipSpaceSep(in, pos) ==
    IF iswspace(CharAt(in, pos)) \/ CharAt(in, pos) = INTERNAL_SEPARATOR
    THEN SkipSpaceSep(in, pos + 1) ELSE pos

\* slice_range that counts from i1 to i2 whichever way that is, whatever the
\* direction.
slice_range_either_way(i1, i2, direction) ==
    IF i1 <= i2 THEN [k \in 1..(i2 - i1 + 1) |-> i1 + k - 1]
    ELSE [k \in 1..(i1 - i2 + 1) |-> i1 - k + 1]

\* slice_range that always counts upwards, from the smaller end to the larger.
slice_range_ascending(i1, i2, direction) ==
    IF i1 <= i2 THEN [k \in 1..(i2 - i1 + 1) |-> i1 + k - 1]
    ELSE [k \in 1..(i1 - i2 + 1) |-> i2 + k - 1]

\* for (jjj = i1; jjj * direction <= i2 * direction; jjj += direction) idx.push_back(jjj)
slice_range(i1, i2, direction) ==
    IF direction = 1
    THEN IF i1 <= i2 THEN [k \in 1..(i2 - i1 + 1) |-> i1 + k - 1] ELSE <<>>
    ELSE IF i1 >= i2 THEN [k \in 1..(i1 - i2 + 1) |-> i1 - k + 1] ELSE <<>>

RECURSIVE parse_slice_loop(_, _, _, _, _, _)
parse_slice_loop(in, size, pos0, idx, zero_index, literal_zero_index) ==
    LET \* One iteration, at the position pos after the white space.
        iteration(pos) ==
          LET zi == IF literal_zero_index /\ CharAt(in, pos) = "0" THEN pos ELSE zero_index
              lzi == literal_zero_index /\ CharAt(in, pos) = "0"
              \* t is what fish_wcstol read at pos; pos1 is the position after it.
              index(t, pos1) ==
                LET tmp == t.val
                    i1 == IF t.val > -1 THEN t.val ELSE size + t.val + 1
                    \* t1 is what fish_wcstol read at pos2, after the two dots.
                    range(t1, pos2) ==
                      LET tmp1 == t1.val
                          i2 == IF t1.val > -1 THEN t1.val ELSE size + t1.val + 1
                          forced == (t1.val > -1) # (t.val > -1)
                          direction == IF forced THEN (IF t1.val > -1 THEN -1 ELSE 1)
                                       ELSE (IF i2 < i1 THEN -1 ELSE 1)
                          c1 == IF forced THEN i1 ELSE (IF i1 < size THEN i1 ELSE size)
                          c2 == IF forced THEN i2 ELSE (IF i2 < size THEN i2 ELSE size)
                      IN IF t1.err THEN [bad_pos |-> pos2, idx |-> idx, end |-> pos2]
                         ELSE IF i1 > size /\ i2 > size
                         THEN parse_slice_loop(in, size, t1.end, idx, zi, lzi)
                         ELSE parse_slice_loop(in, size, t1.end,
                                               idx \o slice_range(c1, c2, direction), zi, lzi)
                IN IF t.err THEN [bad_pos |-> pos, idx |-> idx, end |-> pos]
                   ELSE IF CharAt(in, pos1) = "." /\ CharAt(in, pos1 + 1) = "."
                   THEN range(fish_wcstol(in, SkipSep(in, pos1 + 2)), SkipSep(in, pos1 + 2))
                   ELSE parse_slice_loop(in, size, pos1, Append(idx, i1), zi, lzi /\ tmp = 0)
          IN IF CharAt(in, pos) = "]"
             THEN IF literal_zero_index /\ zero_index # -1
                  THEN [bad_pos |-> zero_index, idx |-> idx, end |-> pos + 1]
                  ELSE [bad_pos |-> 0, idx |-> idx, end |-> pos + 1]
             ELSE index(fish_wcstol(in, pos), SkipSep(in, fish_wcstol(in, pos).end))
    IN iteration(SkipSpaceSep(in, pos0))

parse_slice(in, array_size) == parse_slice_loop(in, array_size, 1, <<>>, -1, TRUE)

(***************************************************************************)
(* The state: one call of expand_string and what it works on.              *)
(***************************************************************************)
VARIABLES
    input,            \* the argument token handed to expand_string
    flags,            \* expand_flags_t: the set of expand_flag values that are set
    vars,             \* environment_t: variable name -> env_var_t (absent: missing)
    history,          \* the history collaborator and whether this is the main thread
    users,            \* the user database: user name -> home directory
    out_completions,  \* the caller's output list
    out_before,       \* the caller's output list as it was when the call was made
    errors,           \* the caller's parse_error_list_t
    completions,      \* expand_string: the working list of the current stage
    output_storage,   \* expand_string: the scratch list the stage appends to
    total_result,     \* expand_string: the aggregated expand_result_t
    stage,            \* expand_string: index of the running stage in stages[], 0-based
    comp_idx,         \* expand_string: index of the next completion of `completions`
    retval,           \* the value expand_string returned
    pc,               \* where control is: "call", "stages", "finish", "done" in expand_string;
                      \* "command", "returned", "unexpand", "replace", "buffer" outside it
    trace,            \* the stage invocations made so far, each with what it returned
    out_cmd,          \* expand_to_command_and_args: the caller's *out_cmd
    out_args,         \* expand_to_command_and_args: the caller's *out_args
    home_str,         \* replace_home_directory_with_tilde: its string, then its result
    unexpanded,       \* the completion lists successive unexpand_tildes calls left
    buffer,           \* a separated_buffer_t
    buffer_op         \* the last call made on the buffer

allvars ==
    <<input, flags, vars, history, users, out_completions, out_before, errors,
      completions, output_storage, total_result, stage, comp_idx, retval, pc, trace,
      out_cmd, out_args, home_str, unexpanded, buffer, buffer_op>>

\* What expand_string does not touch.
callervars == <<out_cmd, out_args, home_str, unexpanded, buffer, buffer_op>>

(***************************************************************************)
(* Error records and the two append functions.                             *)
(***************************************************************************)
ParseError(source_start, code, text) ==
    [source_start |-> source_start, source_length |-> 0, code |-> code, text |-> text]

append_syntax_error(errs, source_start, text) ==
    Append(errs, ParseError(source_start, parse_error_syntax, text))

\* Only recorded if no error with the same text is in the list already.
append_cmdsub_error(errs, source_start, text) ==
    IF \E i \in 1..Len(errs) : errs[i].text = text THEN errs
    ELSE Append(errs, ParseError(source_start, parse_error_cmdsubst, text))

\* parse_util_expand_variable_error(instr, 0, dollar_pos, errors)
parse_util_expand_variable_error(errs, instr, dollar_pos) ==
    append_syntax_error(errs, dollar_pos, "Expected a variable name after this $.")

(***************************************************************************)
(* expand_variables(instr, out, last_idx, vars, errors).  The result is    *)
(* the return value, the completions appended to out and the error list.   *)
(***************************************************************************)
history_name == <<"h", "i", "s", "t", "o", "r", "y">>

\* while (varexp_char_idx--) ...: the last expansion marker before last_idx, or -1.
RECURSIVE find_varexp(_, _)
find_varexp(instr, idx) ==
    IF idx = 0 THEN -1
    ELSE IF At(instr, idx - 1) \in {VARIABLE_EXPAND, VARIABLE_EXPAND_SINGLE} THEN idx - 1
    ELSE find_varexp(instr, idx - 1)

RECURSIVE find_var_name_stop(_, _)
find_var_name_stop(instr, pos) ==
    IF pos >= Len(instr) THEN pos
    ELSE IF At(instr, pos) = VARIABLE_EXPAND_EMPTY THEN pos + 1
    ELSE IF ~valid_var_name_char(At(instr, pos)) THEN pos
    ELSE find_var_name_stop(instr, pos + 1)

\* slice_items where an index past the end selects the last item.
RECURSIVE slice_items_clamped(_, _)
slice_items_clamped(all_items, idx_list) ==
    IF idx_list = <<>> THEN <<>>
    ELSE LET item_index == Head(idx_list)
             rest == slice_items_clamped(all_items, Tail(idx_list))
         IN IF item_index >= 1 /\ all_items # <<>>
            THEN <<all_items[IF item_index <= Len(all_items) THEN item_index
                             ELSE Len(all_items)]>> \o rest
            ELSE rest

\* The items a slice selects: indices outside 1..size are skipped.
RECURSIVE slice_items(_, _)
slice_items(all_items, idx_list) ==
    IF idx_list = <<>> THEN <<>>
    ELSE LET item_index == Head(idx_list)
             rest == slice_items(all_items, Tail(idx_list))
         IN IF item_index >= 1 /\ item_index <= Len(all_items)
            THEN <<all_items[item_index]>> \o rest
            ELSE rest

RECURSIVE expand_variables(_, _, _)
RECURSIVE expand_variables_items(_, _, _, _, _, _)

\* expand_missing_variable where the unquoted form leaves one completion, the string
\* without the variable, instead of none.
expand_missing_variable_emits(instr, is_single, varexp_char_idx, var_name_and_slice_stop, errs) ==
    LET res == Substr(instr, 0, varexp_char_idx) \o Tail0(instr, var_name_and_slice_stop)
    IN IF ~is_single
       THEN [ok |-> TRUE, out |-> <<res>>, errs |-> errs]
       ELSE expand_variables(res, varexp_char_idx, errs)

\* expand_missing_variable where the quoted form expands to nothing, like the
\* unquoted one.
expand_missing_variable_drops(instr, is_single, varexp_char_idx, var_name_and_slice_stop, errs) ==
    [ok |-> TRUE, out |-> <<>>, errs |-> errs]

\* expand_single where the items are appended without the delimiter.
expand_single_undelimited(instr, var_item_list, delimit, varexp_char_idx, var_name_and_slice_stop, errs) ==
    LET pre == Substr(instr, 0, varexp_char_idx)
        res == (IF pre = <<>> THEN pre ELSE Append(pre, INTERNAL_SEPARATOR))
               \o Concat(var_item_list)
               \o Tail0(instr, var_name_and_slice_stop)
    IN expand_variables(res, varexp_char_idx, errs)

\* expand_variables_items where each item is appended as it is, not spliced into the
\* string around the variable.
expand_variables_items_bare(instr, items, k, varexp_char_idx, stop, acc) ==
    IF k > Len(items) THEN acc
    ELSE expand_variables_items(instr, items, k + 1, varexp_char_idx, stop,
                                [acc EXCEPT !.out = Append(@, items[k])])

\* Lines 358-373: expanding a non-existent variable.
expand_missing_variable(instr, is_single, varexp_char_idx, var_name_and_slice_stop, errs) ==
    IF ~is_single
    THEN [ok |-> TRUE, out |-> <<>>, errs |-> errs]
    ELSE LET pre == Substr(instr, 0, varexp_char_idx)
             res == (IF pre # <<>> /\ Back(pre) = VARIABLE_EXPAND_SINGLE
                     THEN Append(pre, VARIABLE_EXPAND_EMPTY) ELSE pre)
                    \o Tail0(instr, var_name_and_slice_stop)
         IN expand_variables(res, varexp_char_idx, errs)

\* Lines 411-428: quoted expansion, the selected items joined by the delimiter.
expand_single(instr, var_item_list, delimit, varexp_char_idx, var_name_and_slice_stop, errs) ==
    LET pre == Substr(instr, 0, varexp_char_idx)
        res == (IF pre = <<>> THEN pre
                ELSE IF Back(pre) # VARIABLE_EXPAND_SINGLE
                THEN Append(pre, INTERNAL_SEPARATOR)
                ELSE IF var_item_list = <<>> \/ Head(var_item_list) = <<>>
                THEN Append(pre, VARIABLE_EXPAND_EMPTY)
                ELSE pre)
               \o join_strings(var_item_list, delimit)
               \o Tail0(instr, var_name_and_slice_stop)
    IN expand_variables(res, varexp_char_idx, errs)

\* Lines 430-450: the loop of the cartesian-product expansion over var_item_list,
\* from item k on.
expand_variables_items(instr, items, k, varexp_char_idx, stop, acc) ==
    IF k > Len(items) THEN acc
    ELSE
      LET item == items[k]
          pre == Substr(instr, 0, varexp_char_idx)
          new_in ==
            (IF pre = <<>> THEN pre
             ELSE IF Back(pre) # VARIABLE_EXPAND THEN Append(pre, INTERNAL_SEPARATOR)
             ELSE IF item = <<>> THEN Append(pre, VARIABLE_EXPAND_EMPTY)
             ELSE pre) \o item \o Tail0(instr, stop)
          \* r is what the recursive call on new_in returned.
          expanded(r) ==
            IF ~r.ok THEN [ok |-> FALSE, out |-> acc.out \o r.out, errs |-> r.errs]
            ELSE expand_variables_items(instr, items, k + 1, varexp_char_idx, stop,
                                        [ok |-> TRUE, out |-> acc.out \o r.out,
                                         errs |-> r.errs])
      IN IF varexp_char_idx = 0 /\ stop = Len(instr)
         THEN expand_variables_items(instr, items, k + 1, varexp_char_idx, stop,
                                     [acc EXCEPT !.out = Append(@, item)])
         ELSE expanded(expand_variables(new_in, varexp_char_idx, acc.errs))

expand_variables(instr, last_idx, errs) ==
    LET insize == Len(instr)
        has_history(var_name) == var_name = history_name /\ history.is_main_thread
        has_var(var_name) ==
          /\ var_name # history_name
          /\ var_name # <<VARIABLE_EXPAND_EMPTY>>
          /\ var_name \in DOMAIN vars
        \* Lines 346-451, with sl what parse_slice returned (if there is a slice).
        sliced(varexp_char_idx, var_name, slice_start, all_values, sl) ==
          LET is_single == At(instr, varexp_char_idx) = VARIABLE_EXPAND_SINGLE
              var_name_and_slice_stop ==
                IF all_values THEN slice_start ELSE slice_start + sl.end
              all_items ==
                IF has_history(var_name) THEN history.items ELSE vars[var_name].vals
              var_item_list ==
                IF all_values THEN all_items ELSE slice_items(all_items, sl.idx)
          IN IF sl.bad_pos # 0
             THEN [ok |-> FALSE, out |-> <<>>,
                   errs |-> IF CharAt(instr, slice_start + sl.bad_pos) = "0"
                            THEN append_syntax_error(errs, slice_start + sl.bad_pos,
                                                     "array indices start at 1, not 0.")
                            ELSE append_syntax_error(errs, slice_start + sl.bad_pos,
                                                     "Invalid index value")]
             ELSE IF ~has_var(var_name) /\ ~has_history(var_name)
             THEN expand_missing_variable(instr, is_single, varexp_char_idx,
                                          var_name_and_slice_stop, errs)
             ELSE IF is_single
             THEN expand_single(instr, var_item_list,
                                IF has_history(var_name) THEN " "
                                ELSE vars[var_name].delimiter,
                                varexp_char_idx, var_name_and_slice_stop, errs)
             ELSE expand_variables_items(instr, var_item_list, 1, varexp_char_idx,
                                         var_name_and_slice_stop,
                                         [ok |-> TRUE, out |-> <<>>, errs |-> errs])
        \* Lines 285-345, with var_name_stop the end of the variable name.
        named(varexp_char_idx, var_name_stop) ==
          LET var_name_start == varexp_char_idx + 1
              var_name_len == var_name_stop - var_name_start
              var_name == Substr(instr, var_name_start, var_name_len)
              slice_start == var_name_stop
              all_values == ~(slice_start < insize /\ At(instr, slice_start) = "[")
              effective_val_count ==
                IF has_var(var_name) THEN Len(vars[var_name].vals)
                ELSE IF has_history(var_name) THEN Len(history.items)
                ELSE 1
          IN IF var_name_len = 0
             THEN [ok |-> FALSE, out |-> <<>>,
                   errs |-> parse_util_expand_variable_error(errs, instr, varexp_char_idx)]
             ELSE sliced(varexp_char_idx, var_name, slice_start, all_values,
                         IF all_values THEN [bad_pos |-> 0, idx |-> <<>>, end |-> 0]
                         ELSE parse_slice(Tail0(instr, slice_start), effective_val_count))
        \* Lines 279-283, with varexp_char_idx the last expansion marker, or -1.
        located(varexp_char_idx) ==
          IF varexp_char_idx = -1
          THEN [ok |-> TRUE, out |-> <<instr>>, errs |-> errs]
          ELSE named(varexp_char_idx, find_var_name_stop(instr, varexp_char_idx + 1))
    IN IF last_idx = 0
       THEN [ok |-> TRUE, out |-> <<instr>>, errs |-> errs]
       ELSE located(find_varexp(instr, last_idx))

(***************************************************************************)
(* expand_braces(instr, flags, out, errors).                               *)
(***************************************************************************)
for_completions == "for_completions"
skip_cmdsubst == "skip_cmdsubst"
skip_variables == "skip_variables"
skip_wildcards == "skip_wildcards"
skip_home_directories == "skip_home_directories"
skip_jobs == "skip_jobs"
executables_only == "executables_only"
no_descriptions == "no_descriptions"
special_for_cd == "special_for_cd"
special_for_command == "special_for_command"

\* The scan for the brace pair: one step per character, stopping on a syntax error.
\* Pointers are positions; NULL is -1.
RECURSIVE brace_scan(_, _, _)
brace_scan(in, pos, st) ==
    IF pos >= Len(in) \/ st.syntax_error THEN st
    ELSE
      LET c == At(in, pos) IN
      brace_scan(in, pos + 1,
        CASE c = BRACE_BEGIN ->
               [st EXCEPT !.brace_begin = IF st.brace_count = 0 THEN pos ELSE @,
                          !.brace_count = @ + 1]
          [] c = BRACE_END ->
               [st EXCEPT !.brace_count = @ - 1,
                          !.syntax_error = st.brace_count - 1 < 0,
                          !.brace_end = IF st.brace_count - 1 = 0 THEN pos ELSE @]
          [] c = BRACE_SEP ->
               [st EXCEPT !.last_sep = IF st.brace_count = 1 THEN pos ELSE @]
          [] OTHER -> st)

\* trim(item, {BRACE_SPACE})
RECURSIVE trim_brace_space(_)
trim_brace_space(item) ==
    IF item = <<>> THEN item
    ELSE IF Head(item) = BRACE_SPACE THEN trim_brace_space(Tail(item))
    ELSE IF Back(item) = BRACE_SPACE THEN trim_brace_space(SubSeq(item, 1, Len(item) - 1))
    ELSE item

brace_item(raw) ==
    LET item == trim_brace_space(raw)
    IN [i \in 1..Len(item) |-> IF item[i] = BRACE_SPACE THEN " " ELSE item[i]]

RECURSIVE expand_braces(_, _, _)
RECURSIVE expand_braces_items(_, _, _, _, _, _, _)

\* expand_braces_items where the expansions of a later item come before those of an
\* earlier one.
expand_braces_items_reversed(instr, fl, st, pos, item_begin, brace_count, acc) ==
    LET at_item == brace_count = 0 /\ (At(instr, pos) = BRACE_SEP \/ pos = st.brace_end)
        whole_item == Substr(instr, 0, st.brace_begin)
                      \o brace_item(Substr(instr, item_begin, pos - item_begin))
                      \o Tail0(instr, st.brace_end + 1)
        r == expand_braces(whole_item, fl, acc.errs)
        acc2 == IF at_item THEN [out |-> r.out \o acc.out, errs |-> r.errs] ELSE acc
        bc2 == IF At(instr, pos) = BRACE_BEGIN THEN brace_count + 1
               ELSE IF At(instr, pos) = BRACE_END THEN brace_count - 1
               ELSE brace_count
    IN IF at_item /\ pos = st.brace_end THEN acc2
       ELSE expand_braces_items(instr, fl, st, pos + 1,
                                IF at_item THEN pos + 1 ELSE item_begin, bc2, acc2)

\* The loop over the items of the located pair, at position pos.
expand_braces_items(instr, fl, st, pos, item_begin, brace_count, acc) ==
    LET at_item == brace_count = 0 /\ (At(instr, pos) = BRACE_SEP \/ pos = st.brace_end)
        whole_item == Substr(instr, 0, st.brace_begin)
                      \o brace_item(Substr(instr, item_begin, pos - item_begin))
                      \o Tail0(instr, st.brace_end + 1)
        r == expand_braces(whole_item, fl, acc.errs)
        acc2 == IF at_item THEN [out |-> acc.out \o r.out, errs |-> r.errs] ELSE acc
        bc2 == IF At(instr, pos) = BRACE_BEGIN THEN brace_count + 1
               ELSE IF At(instr, pos) = BRACE_END THEN brace_count - 1
               ELSE brace_count
    IN IF at_item /\ pos = st.brace_end THEN acc2
       ELSE expand_braces_items(instr, fl, st, pos + 1,
                                IF at_item THEN pos + 1 ELSE item_begin, bc2, acc2)

expand_braces(instr, fl, errs) ==
    LET st == brace_scan(instr, 0,
                         [brace_count |-> 0, brace_begin |-> -1, brace_end |-> -1,
                          last_sep |-> -1, syntax_error |-> FALSE])
        mod == IF st.last_sep # -1
               THEN Substr(instr, 0, st.brace_begin + 1) \o Tail0(instr, st.last_sep + 1)
                    \o <<BRACE_END>>
               ELSE instr \o <<BRACE_END>>
    IN
    IF st.brace_count > 0 /\ for_completions \in fl
    THEN expand_braces(mod, {skip_cmdsubst}, errs)
    ELSE IF st.syntax_error \/ st.brace_count > 0
    THEN [result |-> error, out |-> <<>>,
          errs |-> append_syntax_error(errs, SOURCE_LOCATION_UNKNOWN, "Mismatched braces")]
    ELSE IF st.brace_begin = -1
    THEN [result |-> ok, out |-> <<instr>>, errs |-> errs]
    ELSE LET acc == expand_braces_items(instr, fl, st, st.brace_begin + 1,
                                        st.brace_begin + 1, st.brace_count,
                                        [out |-> <<>>, errs |-> errs])
         IN [result |-> ok, out |-> acc.out, errs |-> acc.errs]

(***************************************************************************)
(* The locator of the lexer: parse_util_locate_cmdsubst (spec section 6).  *)
(* Returns ret in {-1, 0, 1} and the positions of the parentheses.         *)
(***************************************************************************)
\* quote_end: the position of the quote closing the one at pos, or -1.
RECURSIVE quote_end(_, _, _)
quote_end(in, pos, q) ==
    IF pos >= Len(in) THEN -1
    ELSE IF At(in, pos) = "\\" THEN quote_end(in, pos + 2, q)
    ELSE IF At(in, pos) = q THEN pos
    ELSE quote_end(in, pos + 1, q)

RECURSIVE locate_loop(_, _, _, _)
locate_loop(in, pos, prev, st) ==
    IF pos >= Len(in) THEN st
    ELSE
      LET c == At(in, pos) IN
      IF prev = "\\" THEN locate_loop(in, pos + 1, c, st)
      ELSE IF c \in {"'", "\""}
      THEN LET q == quote_end(in, pos + 1, c)
           IN IF q = -1 THEN st ELSE locate_loop(in, q + 1, At(in, q), st)
      ELSE IF c = "("
      THEN locate_loop(in, pos + 1, c,
                       [st EXCEPT !.paren_begin = IF st.paren_count = 0 /\ @ = -1 THEN pos ELSE @,
                                  !.paren_count = @ + 1])
      ELSE IF c = ")"
      THEN IF st.paren_count - 1 = 0 /\ st.paren_end = -1
           THEN [st EXCEPT !.paren_count = 0, !.paren_end = pos]
           ELSE IF st.paren_count - 1 < 0
           THEN [st EXCEPT !.paren_count = @ - 1, !.syntax_error = TRUE]
           ELSE locate_loop(in, pos + 1, c, [st EXCEPT !.paren_count = @ - 1])
      ELSE locate_loop(in, pos + 1, c, st)

parse_util_locate_cmdsubst(in, allow_incomplete) ==
    LET st == locate_loop(in, 0, NUL,
                          [paren_count |-> 0, paren_begin |-> -1, paren_end |-> -1,
                           syntax_error |-> FALSE])
    IN IF st.syntax_error \/ st.paren_count < 0 \/ (st.paren_count > 0 /\ ~allow_incomplete)
       THEN [ret |-> -1, begin |-> -1, end |-> -1]
       ELSE IF st.paren_begin = -1 THEN [ret |-> 0, begin |-> -1, end |-> -1]
       ELSE [ret |-> 1, begin |-> st.paren_begin,
             end |-> IF st.paren_count # 0 THEN Len(in) ELSE st.paren_end]

(***************************************************************************)
(* escape_string(line, ESCAPE_ALL): a backslash before every character     *)
(* the unescape step would read as syntax; the empty string is quoted.     *)
(***************************************************************************)
EscapedChars ==
    {"\\", "$", "*", "?", "~", "%", "(", ")", "{", "}", "[", "]", "\"", "'", " ", "#",
     "<", ">", "&", "|", ";", "^"}

RECURSIVE escape_chars(_)
escape_chars(str) ==
    IF str = <<>> THEN <<>>
    ELSE (IF Head(str) \in EscapedChars THEN <<"\\", Head(str)>> ELSE <<Head(str)>>)
         \o escape_chars(Tail(str))

escape_string(str) == IF str = <<>> THEN <<"'", "'">> ELSE escape_chars(str)

(***************************************************************************)
(* expand_cmdsubst(input, parser, out_list, errors).  The executor is a    *)
(* collaborator: w.script holds the outcomes its next calls will return,   *)
(* w.last_status is parser.get_last_status(), w.execs the calls made.      *)
(***************************************************************************)
STATUS_READ_TOO_MUCH == "STATUS_READ_TOO_MUCH"
STATUS_CMD_OK == "STATUS_CMD_OK"

\* exec_subshell after which the parser's last status reads as STATUS_CMD_OK whatever
\* the command did.
exec_subshell_status_ok(subcmd, w) ==
    LET o == IF w.script = <<>> THEN [ret |-> 0, status |-> STATUS_CMD_OK, lines |-> <<>>]
             ELSE Head(w.script)
    IN [ret |-> o.ret, lines |-> o.lines,
        w |-> [w EXCEPT !.script = IF @ = <<>> THEN @ ELSE Tail(@),
                        !.last_status = STATUS_CMD_OK,
                        !.execs = Append(@, [subcmd |-> subcmd, ret |-> o.ret,
                                            status |-> o.status, lines |-> o.lines])]]

\* exec_subshell(subcmd, parser, sub_res, ...): takes the next scripted outcome.
exec_subshell(subcmd, w) ==
    LET o == IF w.script = <<>> THEN [ret |-> 0, status |-> STATUS_CMD_OK, lines |-> <<>>]
             ELSE Head(w.script)
    IN [ret |-> o.ret, lines |-> o.lines,
        w |-> [w EXCEPT !.script = IF @ = <<>> THEN @ ELSE Tail(@),
                        !.last_status = o.status,
                        !.execs = Append(@, [subcmd |-> subcmd, ret |-> o.ret,
                                            status |-> o.status, lines |-> o.lines])]]

\* cmdsubst_product with the tail's completions as the outer index and the lines as
\* the inner one.
cmdsubst_product_tail_outer(prefix, sub_res, tail_expand) ==
    LET n == Len(sub_res)
        m == Len(tail_expand)
    IN [k \in 1..(n * m) |->
          prefix \o <<INTERNAL_SEPARATOR>> \o escape_string(sub_res[((k - 1) % n) + 1])
                 \o <<INTERNAL_SEPARATOR>> \o tail_expand[((k - 1) \div n) + 1]]

\* The cartesian product of the substitution's lines and the tail's completions.
cmdsubst_product(prefix, sub_res, tail_expand) ==
    LET n == Len(sub_res)
        m == Len(tail_expand)
    IN [k \in 1..(n * m) |->
          prefix \o <<INTERNAL_SEPARATOR>> \o escape_string(sub_res[((k - 1) \div m) + 1])
                 \o <<INTERNAL_SEPARATOR>> \o tail_expand[((k - 1) % m) + 1]]

RECURSIVE expand_cmdsubst(_, _)
expand_cmdsubst(in, w) ==
    LET \* Lines 619-675: sl is what parse_slice returned (if there is a slice) and
        \* ex what exec_subshell returned.
        sliced(paren_begin, slice_begin, has_slice, ex, sl) ==
          LET sub_res == IF has_slice THEN slice_items(ex.lines, sl.idx) ELSE ex.lines
              tail_begin == IF has_slice THEN slice_begin + sl.end ELSE slice_begin
              \* tl is what the recursive call on the tail returned.
              product(tl) ==
                [ok |-> tl.w.last_status # STATUS_READ_TOO_MUCH,
                 out |-> cmdsubst_product(Substr(in, 0, paren_begin), sub_res, tl.out),
                 w |-> tl.w]
          IN IF sl.bad_pos # 0
             THEN [ok |-> FALSE, out |-> <<>>,
                   w |-> [ex.w EXCEPT !.errs =
                            append_syntax_error(@, slice_begin + sl.bad_pos,
                                                "Invalid index value")]]
             ELSE product(expand_cmdsubst(Tail0(in, tail_begin), ex.w))
        \* Lines 592-618: ex is what exec_subshell returned.
        executed(paren_begin, paren_end, ex) ==
          LET slice_begin == paren_end + 1
              has_slice == CharAt(in, slice_begin) = "["
          IN IF ex.ret = -1
             THEN [ok |-> FALSE, out |-> <<>>,
                   w |-> [ex.w EXCEPT !.errs =
                            append_cmdsub_error(@, SOURCE_LOCATION_UNKNOWN,
                                "Unknown error while evaluating command substitution")]]
             ELSE IF ex.w.last_status = STATUS_READ_TOO_MUCH
             THEN [ok |-> FALSE, out |-> <<>>,
                   w |-> [ex.w EXCEPT !.errs =
                            append_cmdsub_error(@, 0 - paren_begin,
                                "Too much data emitted by command substitution so it was discarded")]]
             ELSE sliced(paren_begin, slice_begin, has_slice, ex,
                         IF has_slice
                         THEN parse_slice(Tail0(in, slice_begin), Len(ex.lines))
                         ELSE [bad_pos |-> 0, idx |-> <<>>, end |-> 0])
        \* Lines 573-591: loc is what the locator returned.
        located(loc) ==
          IF loc.ret = -1
          THEN [ok |-> FALSE, out |-> <<>>,
                w |-> [w EXCEPT !.errs = append_syntax_error(@, SOURCE_LOCATION_UNKNOWN,
                                                             "Mismatched parenthesis")]]
          ELSE IF loc.ret = 0
          THEN [ok |-> TRUE, out |-> <<in>>, w |-> w]
          ELSE executed(loc.begin, loc.end,
                        exec_subshell(Substr(in, loc.begin + 1, loc.end - loc.begin - 1), w))
    IN located(parse_util_locate_cmdsubst(in, FALSE))

(***************************************************************************)
(* Home directories and %self.                                             *)
(***************************************************************************)
HOME_name == <<"H", "O", "M", "E">>

\* input.find_first_of('/'), or -1 for npos.
RECURSIVE find_slash(_, _)
find_slash(str, pos) ==
    IF pos >= Len(str) THEN -1
    ELSE IF At(str, pos) = "/" THEN pos
    ELSE find_slash(str, pos + 1)

\* get_home_directory_name(input, &tail_idx): the user name after the tilde and the
\* index of the rest of the string.
get_home_directory_name(str) ==
    LET pos == find_slash(str, 0)
    IN IF pos # -1
       THEN [name |-> Substr(str, 1, pos - 1), tail_idx |-> pos]
       ELSE [name |-> Tail0(str, 1), tail_idx |-> Len(str)]

\* normalize_path: drops empty and "." components, resolves "..", keeps a leading "/".
RECURSIVE split_path(_, _)
split_path(path, cur) ==
    IF path = <<>> THEN <<cur>>
    ELSE IF Head(path) = "/" THEN <<cur>> \o split_path(Tail(path), <<>>)
    ELSE split_path(Tail(path), Append(cur, Head(path)))

RECURSIVE normalize_components(_, _)
normalize_components(comps, acc) ==
    IF comps = <<>> THEN acc
    ELSE LET c == Head(comps) IN
         IF c = <<>> \/ c = <<".">> THEN normalize_components(Tail(comps), acc)
         ELSE IF c = <<".", ".">> /\ acc # <<>> /\ Back(acc) # <<".", ".">>
         THEN normalize_components(Tail(comps), SubSeq(acc, 1, Len(acc) - 1))
         ELSE normalize_components(Tail(comps), Append(acc, c))

normalize_path(path) ==
    LET comps == normalize_components(split_path(path, <<>>), <<>>)
        body == join_strings(comps, "/")
    IN IF path # <<>> /\ Head(path) = "/" THEN <<"/">> \o body
       ELSE IF body = <<>> THEN <<".">>
       ELSE body

\* env_var_t::missing_or_empty and as_string for vars.get(name).
missing_or_empty(name) ==
    \/ name \notin DOMAIN vars
    \/ vars[name].vals = <<>>
    \/ vars[name].vals = << <<>> >>

as_string(name) == join_strings(vars[name].vals, vars[name].delimiter)

\* expand_home_directory that, when HOME is missing or empty, puts the tilde back as
\* it does for a user it cannot find.
expand_home_directory_restores(str) ==
    IF str # <<>> /\ At(str, 0) = HOME_DIRECTORY
    THEN LET h == get_home_directory_name(str)
         IN IF h.name = <<>> /\ ~missing_or_empty(HOME_name)
            THEN normalize_path(as_string(HOME_name)) \o Tail0(str, 1)
            ELSE IF h.name # <<>> /\ h.name \in DOMAIN users
                 THEN normalize_path(users[h.name]) \o Tail0(str, h.tail_idx)
                 ELSE <<"~">> \o Tail0(str, 1)
    ELSE str

\* expand_home_directory(input, vars)
expand_home_directory(str) ==
    IF str # <<>> /\ At(str, 0) = HOME_DIRECTORY
    THEN LET h == get_home_directory_name(str)
         IN IF h.name = <<>>
            THEN IF missing_or_empty(HOME_name) THEN <<>>
                 ELSE normalize_path(as_string(HOME_name)) \o Tail0(str, 1)
            ELSE IF h.name \in DOMAIN users
                 THEN normalize_path(users[h.name]) \o Tail0(str, h.tail_idx)
                 ELSE <<"~">> \o Tail0(str, 1)
    ELSE str

\* to_string(getpid())
getpid == <<"4", "2">>

expand_percent_self(str) ==
    IF str # <<>> /\ Head(str) = PROCESS_EXPAND_SELF THEN getpid \o Tail(str) ELSE str

expand_tilde(str) ==
    IF str # <<>> /\ At(str, 0) = "~"
    THEN expand_home_directory(<<HOME_DIRECTORY>> \o Tail(str))
    ELSE str

\* unexpand_tildes(input, vars, completions)
unexpand_tildes(in, comps) ==
    IF in = <<>> \/ At(in, 0) # "~" THEN comps
    ELSE IF ~\E i \in 1..Len(comps) : COMPLETE_REPLACES_TOKEN \in comps[i].flags THEN comps
    ELSE LET username_with_tilde == <<"~">> \o get_home_directory_name(in).name
             home == expand_tilde(username_with_tilde)
         IN [i \in 1..Len(comps) |->
               IF /\ COMPLETE_REPLACES_TOKEN \in comps[i].flags
                  /\ string_prefixes_string(home, comps[i].completion)
               THEN [completion |-> username_with_tilde
                                    \o Tail0(comps[i].completion, Len(home)),
                     flags |-> comps[i].flags \cup {COMPLETE_DONT_ESCAPE_TILDES}]
               ELSE comps[i]]

\* replace_home_directory_with_tilde(str, vars)
replace_home_directory_with_tilde(str) ==
    IF string_prefixes_string(<<"/">>, str)
    THEN LET h == expand_tilde(<<"~">>)
             home_directory == IF string_suffixes_string(<<"/">>, h) THEN h
                               ELSE Append(h, "/")
         IN IF string_prefixes_string(home_directory, str)
            THEN <<"~", "/">> \o Tail0(str, Len(home_directory))
            ELSE str
    ELSE str

(***************************************************************************)
(* remove_internal_separator(str, conv)                                    *)
(***************************************************************************)
RECURSIVE erase_internal_separator(_)
erase_internal_separator(str) ==
    IF str = <<>> THEN <<>>
    ELSE IF Head(str) = INTERNAL_SEPARATOR THEN erase_internal_separator(Tail(str))
    ELSE <<Head(str)>> \o erase_internal_separator(Tail(str))

\* remove_internal_separator that leaves the wildcard sentinels whatever conv says.
remove_internal_separator_unconverted(str, conv) == erase_internal_separator(str)

remove_internal_separator(str, conv) ==
    LET e == erase_internal_separator(str)
    IN IF conv
       THEN [i \in 1..Len(e) |->
               IF e[i] = ANY_CHAR THEN "?"
               ELSE IF e[i] \in {ANY_STRING, ANY_STRING_RECURSIVE} THEN "*"
               ELSE e[i]]
       ELSE e

(***************************************************************************)
(* The wildcard stage's collaborators: wildcard_has, the working           *)
(* directories, the matcher and the natural ordering of its matches.       *)
(***************************************************************************)
\* wildcard_has(str, true): a wildcard in its internal (sentinel) form.
wildcard_has(str) == Contains(str, WildcardSentinels)

\* vars.get_pwd_slash()
get_pwd_slash == <<"/", "w", "/">>

CDPATH_name == <<"C", "D", "P", "A", "T", "H">>
PATH_name == <<"P", "A", "T", "H">>

path_apply_working_directory(path, working_directory) ==
    IF path = <<>> \/ working_directory = <<>> THEN path
    ELSE IF Head(path) \in {"/", HOME_DIRECTORY} THEN path
    ELSE working_directory \o path

\* The directories stage_wildcards hands to the matcher, in order.
effective_working_dirs(path_to_expand, fl) ==
    LET for_cd == special_for_cd \in fl
        for_command == special_for_command \in fl
        name == IF for_cd THEN CDPATH_name ELSE PATH_name
        listed == IF name \in DOMAIN vars THEN vars[name].vals ELSE <<>>
        paths == IF listed = <<>> THEN << IF for_cd THEN <<".">> ELSE <<>> >> ELSE listed
    IN IF ~for_cd /\ ~for_command THEN <<get_pwd_slash>>
       ELSE IF \/ string_prefixes_string(<<"/">>, path_to_expand)
               \/ string_prefixes_string(<<".", "/">>, path_to_expand)
               \/ string_prefixes_string(<<".", ".", "/">>, path_to_expand)
               \/ (for_command /\ Contains(path_to_expand, {"/"}))
       THEN <<get_pwd_slash>>
       ELSE [i \in 1..Len(paths) |-> path_apply_working_directory(paths[i], get_pwd_slash)]

\* completion_t::is_naturally_less_than: digit runs compare as numbers, other
\* characters by code point.
CharOrder ==
    <<"-", ".", "/", "0", "1", "2", "3", "4", "5", "6", "7", "8", "9",
      "a", "b", "c", "d", "e", "f", "g", "h", "i", "j", "k", "l", "m", "n", "o", "p", "q",
      "r", "s", "t", "u", "v", "w", "x", "y", "z", "~">>

CharRank(c) ==
    IF \E i \in 1..Len(CharOrder) : CharOrder[i] = c
    THEN CHOOSE i \in 1..Len(CharOrder) : CharOrder[i] = c
    ELSE 0

RECURSIVE natural_less(_, _)
natural_less(a, b) ==
    IF b = <<>> THEN FALSE
    ELSE IF a = <<>> THEN TRUE
    ELSE IF Head(a) \in Digits /\ Head(b) \in Digits
    THEN LET da == ReadDigits(a, 0, [val |-> 0, end |-> 0])
             db == ReadDigits(b, 0, [val |-> 0, end |-> 0])
         IN IF da.val # db.val THEN da.val < db.val
            ELSE natural_less(Tail0(a, da.end), Tail0(b, db.end))
    ELSE IF Head(a) # Head(b) THEN CharRank(Head(a)) < CharRank(Head(b))
    ELSE natural_less(Tail(a), Tail(b))

is_naturally_less_than(a, b) == natural_less(a.completion, b.completion)

RECURSIVE sort_insert(_, _)
sort_insert(sorted, c) ==
    IF sorted = <<>> THEN <<c>>
    ELSE IF is_naturally_less_than(c, Head(sorted)) THEN <<c>> \o sorted
    ELSE <<Head(sorted)>> \o sort_insert(Tail(sorted), c)

\* std::sort(expanded.begin(), expanded.end(), completion_t::is_naturally_less_than)
RECURSIVE sort_completions(_)
sort_completions(cs) ==
    IF cs = <<>> THEN <<>>
    ELSE sort_insert(sort_completions(SubSeq(cs, 1, Len(cs) - 1)), Back(cs))

\* wildcard_expand_string(path, working_dir, flags, &expanded): the matcher is a
\* collaborator; `outcome` is what this call returns and appends.
wildcard_expand_string(path, working_dir, fl, outcome) ==
    [rc |-> outcome.rc,
     expanded |-> [i \in 1..Len(outcome.files) |->
                     [completion |-> outcome.files[i],
                      flags |-> IF for_completions \in fl THEN {COMPLETE_REPLACES_TOKEN}
                                ELSE {}]]]

(***************************************************************************)
(* The five stages of expander_t.  Each returns its expand_result_t, the   *)
(* completions it appends to out, the error list and the collaborator      *)
(* calls it made.                                                          *)
(***************************************************************************)
\* stage_cmdsubst without the test of skip_cmdsubst: the substitution is always run.
stage_cmdsubst_always_runs(in, fl, errs, script) ==
    LET expanded(r) ==
          [result |-> IF r.ok THEN ok ELSE error,
           out |-> [i \in 1..Len(r.out) |-> Comp(r.out[i])],
           errs |-> r.w.errs, calls |-> r.w.execs]
    IN expanded(expand_cmdsubst(in, [script |-> script, last_status |-> STATUS_CMD_OK,
                                     errs |-> errs, execs |-> <<>>]))

stage_cmdsubst(in, fl, errs, script) ==
    LET \* loc is what parse_util_locate_cmdsubst_range returned.
        located(loc) ==
          IF loc.ret = 0
          THEN [result |-> ok, out |-> <<Comp(in)>>, errs |-> errs, calls |-> <<>>]
          ELSE IF loc.ret = 1
          THEN [result |-> error, out |-> <<>>,
                errs |-> append_cmdsub_error(errs, loc.begin,
                                             "Command substitutions not allowed"),
                calls |-> <<>>]
          ELSE [result |-> error, out |-> <<>>, errs |-> errs, calls |-> <<>>]
        \* r is what expand_cmdsubst returned.
        expanded(r) ==
          [result |-> IF r.ok THEN ok ELSE error,
           out |-> [i \in 1..Len(r.out) |-> Comp(r.out[i])],
           errs |-> r.w.errs, calls |-> r.w.execs]
    IN IF skip_cmdsubst \in fl
       THEN located(parse_util_locate_cmdsubst(in, TRUE))
       ELSE expanded(expand_cmdsubst(in, [script |-> script, last_status |-> STATUS_CMD_OK,
                                          errs |-> errs, execs |-> <<>>]))

stage_variables(in, fl, errs) ==
    LET \* r is what expand_variables returned.
        expanded(r) ==
          [result |-> IF r.ok THEN ok ELSE error,
           out |-> [i \in 1..Len(r.out) |-> Comp(r.out[i])],
           errs |-> r.errs, calls |-> <<>>]
        \* next is the unescaped input.
        unescaped(next) ==
          IF skip_variables \in fl
          THEN [result |-> ok,
                out |-> <<Comp([i \in 1..Len(next) |->
                                 IF next[i] = VARIABLE_EXPAND THEN "$" ELSE next[i]])>>,
                errs |-> errs, calls |-> <<>>]
          ELSE expanded(expand_variables(next, Len(next), errs))
    IN unescaped(unescape_string(in))

stage_braces(in, fl, errs) ==
    LET expanded(r) ==
          [result |-> r.result, out |-> [i \in 1..Len(r.out) |-> Comp(r.out[i])],
           errs |-> r.errs, calls |-> <<>>]
    IN expanded(expand_braces(in, fl, errs))

stage_home_and_self(in, fl, errs) ==
    LET h == IF skip_home_directories \notin fl THEN expand_home_directory(in) ELSE in
    IN [result |-> ok, out |-> <<Comp(expand_percent_self(h))>>, errs |-> errs,
        calls |-> <<>>]

\* The loop over effective_working_dirs without the break on cancellation.
RECURSIVE wildcard_dirs_loop_continues(_, _, _, _, _, _)
wildcard_dirs_loop_continues(path, dirs, fl, script, wd_idx, acc) ==
    IF wd_idx > Len(dirs) THEN acc
    ELSE LET m == wildcard_expand_string(path, dirs[wd_idx], fl, script[wd_idx])
         IN wildcard_dirs_loop_continues(path, dirs, fl, script, wd_idx + 1,
              [result |-> IF m.rc > 0 THEN wildcard_match
                          ELSE IF m.rc < 0 THEN error
                          ELSE acc.result,
               expanded |-> acc.expanded \o m.expanded,
               calls |-> Append(acc.calls, [dir |-> dirs[wd_idx], rc |-> m.rc])])

\* The loop over effective_working_dirs, from directory wd_idx (1-based) on.
RECURSIVE wildcard_dirs_loop(_, _, _, _, _, _)
wildcard_dirs_loop(path, dirs, fl, script, wd_idx, acc) ==
    IF wd_idx > Len(dirs) THEN acc
    ELSE LET m == wildcard_expand_string(path, dirs[wd_idx], fl, script[wd_idx])
             acc2 == [result |-> IF m.rc > 0 THEN wildcard_match
                                 ELSE IF m.rc < 0 THEN error
                                 ELSE acc.result,
                      expanded |-> acc.expanded \o m.expanded,
                      calls |-> Append(acc.calls, [dir |-> dirs[wd_idx], rc |-> m.rc])]
         IN IF m.rc < 0 THEN acc2
            ELSE wildcard_dirs_loop(path, dirs, fl, script, wd_idx + 1, acc2)

\* Whether stage_wildcards hands the scrubbed path to the matcher.
wildcards_delegates(path_to_expand, fl) ==
    LET has_wildcard == wildcard_has(path_to_expand)
    IN /\ ~(has_wildcard /\ executables_only \in fl)
       /\ ((for_completions \in fl /\ skip_wildcards \notin fl) \/ has_wildcard)

stage_wildcards(in, fl, errs, script) ==
    LET \* w is what the loop over the working directories left.
        matched(w) ==
          [result |-> w.result, out |-> sort_completions(w.expanded), errs |-> errs,
           calls |-> w.calls]
        \* path_to_expand is the input after remove_internal_separator.
        scrubbed(path_to_expand, has_wildcard) ==
          IF has_wildcard /\ executables_only \in fl
          THEN [result |-> ok, out |-> <<>>, errs |-> errs, calls |-> <<>>]
          ELSE IF (for_completions \in fl /\ skip_wildcards \notin fl) \/ has_wildcard
          THEN matched(wildcard_dirs_loop(path_to_expand,
                                          effective_working_dirs(path_to_expand, fl),
                                          fl, script, 1,
                                          [result |-> wildcard_no_match, expanded |-> <<>>,
                                           calls |-> <<>>]))
          ELSE IF for_completions \notin fl
          THEN [result |-> ok, out |-> <<Comp(path_to_expand)>>, errs |-> errs,
                calls |-> <<>>]
          ELSE [result |-> ok, out |-> <<>>, errs |-> errs, calls |-> <<>>]
    IN scrubbed(remove_internal_separator(in, skip_wildcards \in fl),
                wildcard_has(remove_internal_separator(in, skip_wildcards \in fl)))

(***************************************************************************)
(* expander_t::expand_string, one step at a time.                          *)
(***************************************************************************)
UNCLEAN_FIRST == {"~", "%"}
UNCLEAN == {"$", "*", "?", "\\", "\"", "'", "(", "{", "}", ")"}

\* expand_is_clean with a list of unclean characters that lacks the asterisk.
expand_is_clean_but_star(in) ==
    \/ in = <<>>
    \/ (At(in, 0) \notin UNCLEAN_FIRST /\ ~Contains(in, UNCLEAN \ {"*"}))

expand_is_clean(in) ==
    \/ in = <<>>
    \/ (At(in, 0) \notin UNCLEAN_FIRST /\ ~Contains(in, UNCLEAN))

\* The update of total_result after one stage invocation returned this_result.
aggregate_result(total, this_result) ==
    IF ~(this_result = wildcard_no_match /\ total = wildcard_match)
    THEN this_result
    ELSE total

\* The collaborator outcomes a stage invocation may meet.
ExecLines == {<<>>, << <<"a">>, <<"b">> >>, << <<"a", " ", "b">> >>}

ExecOutcomes ==
    [ret : {0}, status : {STATUS_CMD_OK}, lines : ExecLines]
    \cup {[ret |-> -1, status |-> STATUS_CMD_OK, lines |-> <<>>],
          [ret |-> 0, status |-> STATUS_READ_TOO_MUCH, lines |-> <<>>]}

WcOutcomes ==
    {[rc |-> 1, files |-> << <<"f", "1", "0">>, <<"f", "2">> >>],
     [rc |-> 0, files |-> <<>>],
     [rc |-> -1, files |-> <<>>]}

NumParens(in) == Cardinality({i \in 1..Len(in) : in[i] = "("})

ExecScripts(in, fl) ==
    IF skip_cmdsubst \in fl THEN {<<>>} ELSE [1..NumParens(in) -> ExecOutcomes]

WcScripts(in, fl) ==
    LET path_to_expand == remove_internal_separator(in, skip_wildcards \in fl)
    IN IF wildcards_delegates(path_to_expand, fl)
       THEN [1..Len(effective_working_dirs(path_to_expand, fl)) -> WcOutcomes]
       ELSE {<<>>}

\* Lines 1031-1050: the early out for clean input, else the set-up of the stage loop.
Call ==
    /\ pc = "call"
    /\ IF for_completions \notin flags /\ expand_is_clean(input)
       THEN /\ out_completions' = Append(out_completions, Comp(input))
            /\ retval' = ok
            /\ pc' = "done"
            /\ UNCHANGED <<completions, output_storage, total_result, stage, comp_idx>>
       ELSE /\ completions' = <<Comp(input)>>
            /\ output_storage' = <<>>
            /\ total_result' = ok
            /\ stage' = 0
            /\ comp_idx' = 0
            /\ pc' = "stages"
            /\ UNCHANGED <<out_completions, retval>>
    /\ UNCHANGED callervars
    /\ UNCHANGED <<input, flags, vars, history, users, out_before, errors, trace>>

\* Lines 1052-1063: stages[k] runs on the next completion with outcome r.
StageStep(k, r) ==
    /\ output_storage' = output_storage \o r.out
    /\ errors' = r.errs
    /\ total_result' = aggregate_result(total_result, r.result)
    /\ comp_idx' = comp_idx + 1
    /\ trace' = Append(trace, [stage |-> k, input |-> completions[comp_idx + 1].completion,
                               result |-> r.result, calls |-> r.calls,
                               out |-> Strings(r.out)])
    /\ UNCHANGED callervars
    /\ UNCHANGED <<input, flags, vars, history, users, out_before, out_completions, completions,
                   stage, retval, pc>>

\* StageReady without the break of lines 1061-1063: a stage goes on after an error.
StageReadyDespiteError(k) ==
    /\ pc = "stages"
    /\ stage = k
    /\ comp_idx < Len(completions)

StageReady(k) ==
    /\ pc = "stages"
    /\ stage = k
    /\ comp_idx < Len(completions)
    /\ total_result # error

StageCmdsubst ==
    /\ StageReady(0)
    /\ \E script \in ExecScripts(completions[comp_idx + 1].completion, flags) :
         StageStep(0, stage_cmdsubst(completions[comp_idx + 1].completion, flags, errors,
                                     script))

StageVariables ==
    /\ StageReady(1)
    /\ StageStep(1, stage_variables(completions[comp_idx + 1].completion, flags, errors))

StageBraces ==
    /\ StageReady(2)
    /\ StageStep(2, stage_braces(completions[comp_idx + 1].completion, flags, errors))

StageHomeAndSelf ==
    /\ StageReady(3)
    /\ StageStep(3, stage_home_and_self(completions[comp_idx + 1].completion, flags, errors))

StageWildcards ==
    /\ StageReady(4)
    /\ \E script \in WcScripts(completions[comp_idx + 1].completion, flags) :
         StageStep(4, stage_wildcards(completions[comp_idx + 1].completion, flags, errors,
                                      script))

\* Lines 1061-1071: the end of a stage's loop (by exhaustion or by break on error);
\* the output becomes the next stage's input.
SwapStage ==
    /\ pc = "stages"
    /\ (comp_idx >= Len(completions) \/ total_result = error)
    /\ completions' = output_storage
    /\ output_storage' = <<>>
    /\ IF total_result = error \/ stage = 4
       THEN pc' = "finish" /\ UNCHANGED <<stage, comp_idx>>
       ELSE pc' = "stages" /\ stage' = stage + 1 /\ comp_idx' = 0
    /\ UNCHANGED callervars
    /\ UNCHANGED <<input, flags, vars, history, users, out_before, out_completions, errors,
                   total_result, retval, trace>>

\* Finish without the test of line 1074: the completions of the failed run are inserted.
FinishInsertsOnError ==
    /\ pc = "finish"
    /\ out_completions' =
         out_completions \o
         (IF skip_home_directories \notin flags
          THEN unexpand_tildes(input, completions)
          ELSE completions)
    /\ retval' = total_result
    /\ pc' = "done"
    /\ UNCHANGED callervars
    /\ UNCHANGED <<input, flags, vars, history, users, out_before, errors, completions,
                   output_storage, total_result, stage, comp_idx, trace>>

\* Lines 1074-1083.
Finish ==
    /\ pc = "finish"
    /\ out_completions' =
         IF total_result # error
         THEN out_completions \o
              (IF skip_home_directories \notin flags
               THEN unexpand_tildes(input, completions)
               ELSE completions)
         ELSE out_completions
    /\ retval' = total_result
    /\ pc' = "done"
    /\ UNCHANGED callervars
    /\ UNCHANGED <<input, flags, vars, history, users, out_before, errors, completions,
                   output_storage, total_result, stage, comp_idx, trace>>

Next ==
    \/ Call
    \/ StageCmdsubst
    \/ StageVariables
    \/ StageBraces
    \/ StageHomeAndSelf
    \/ StageWildcards
    \/ SwapStage
    \/ Finish

\* Lines 1039-1050 alone: the set-up of the stage loop for an input the early out
\* would have taken, to compare the two paths.
CallSlow ==
    /\ pc = "call"
    /\ completions' = <<Comp(input)>>
    /\ output_storage' = <<>>
    /\ total_result' = ok
    /\ stage' = 0
    /\ comp_idx' = 0
    /\ pc' = "stages"
    /\ UNCHANGED <<out_completions, retval>>
    /\ UNCHANGED callervars
    /\ UNCHANGED <<input, flags, vars, history, users, out_before, errors, trace>>

NextSlow ==
    \/ CallSlow
    \/ StageCmdsubst
    \/ StageVariables
    \/ StageBraces
    \/ StageHomeAndSelf
    \/ StageWildcards
    \/ SwapStage
    \/ Finish

(***************************************************************************)
(* expand_to_command_and_args(instr, vars, out_cmd, out_args, errors):     *)
(* `input` is instr, `out_completions` its local list of completions.      *)
(***************************************************************************)
\* Lines 1122-1124: the flags expand_to_command_and_args passes to expand_string.
command_and_args_flags == {skip_cmdsubst, no_descriptions, skip_jobs}

\* Lines 1114-1125: the fast path, else the call of expand_string.
CommandAndArgsCall ==
    /\ pc = "command"
    /\ IF expand_is_clean(input)
       THEN /\ out_cmd' = input
            /\ retval' = ok
            /\ pc' = "returned"
            /\ UNCHANGED flags
       ELSE /\ flags' = command_and_args_flags
            /\ pc' = "call"
            /\ UNCHANGED <<out_cmd, retval>>
    /\ UNCHANGED <<input, vars, history, users, out_completions, out_before, errors,
                   completions, output_storage, total_result, stage, comp_idx, trace,
                   out_args, home_str, unexpanded, buffer, buffer_op>>

\* Lines 1126-1138 taken on every result: the completions are handed out whatever
\* expand_string returned.
CommandAndArgsReturnAlways ==
    /\ pc = "done"
    /\ IF out_completions # <<>>
       THEN /\ out_cmd' = Head(out_completions).completion
            /\ out_args' = out_args \o Strings(Tail(out_completions))
       ELSE UNCHANGED <<out_cmd, out_args>>
    /\ pc' = "returned"
    /\ UNCHANGED <<input, flags, vars, history, users, out_completions, out_before, errors,
                   completions, output_storage, total_result, stage, comp_idx, retval, trace,
                   home_str, unexpanded, buffer, buffer_op>>

\* Lines 1126-1138: the first completion is the command, the others are arguments.
CommandAndArgsReturn ==
    /\ pc = "done"
    /\ IF retval \in {ok, wildcard_match} /\ out_completions # <<>>
       THEN /\ out_cmd' = Head(out_completions).completion
            /\ out_args' = out_args \o Strings(Tail(out_completions))
       ELSE UNCHANGED <<out_cmd, out_args>>
    /\ pc' = "returned"
    /\ UNCHANGED <<input, flags, vars, history, users, out_completions, out_before, errors,
                   completions, output_storage, total_result, stage, comp_idx, retval, trace,
                   home_str, unexpanded, buffer, buffer_op>>

NextCommand ==
    \/ CommandAndArgsCall
    \/ Next
    \/ CommandAndArgsReturn

(***************************************************************************)
(* The two tilde functions called on their own.                            *)
(***************************************************************************)
MaxUnexpands == 2   \* the most calls of unexpand_tildes on one completion list

\* unexpand_tildes(input, vars, &completions) on the list the last call left.
UnexpandTildes ==
    /\ pc = "unexpand"
    /\ Len(unexpanded) <= MaxUnexpands
    /\ unexpanded' = Append(unexpanded, unexpand_tildes(input, Back(unexpanded)))
    /\ UNCHANGED <<input, flags, vars, history, users, out_completions, out_before, errors,
                   completions, output_storage, total_result, stage, comp_idx, retval, pc,
                   trace, out_cmd, out_args, home_str, buffer, buffer_op>>

\* home_str = replace_home_directory_with_tilde(input, vars)
ReplaceHomeDirectoryWithTilde ==
    /\ pc = "replace"
    /\ home_str' = replace_home_directory_with_tilde(input)
    /\ pc' = "done"
    /\ UNCHANGED <<input, flags, vars, history, users, out_completions, out_before, errors,
                   completions, output_storage, total_result, stage, comp_idx, retval,
                   trace, out_cmd, out_args, unexpanded, buffer, buffer_op>>

NextTilde ==
    \/ UnexpandTildes
    \/ ReplaceHomeDirectoryWithTilde

(***************************************************************************)
(* separated_buffer_t (io.h).                                              *)
(***************************************************************************)
inferred == "inferred"
explicitly == "explicitly"

\* The constructor: separated_buffer_t(limit).
separated_buffer_t(limit) ==
    [buffer_limit_ |-> limit, contents_size_ |-> 0, elements_ |-> <<>>, discard |-> FALSE]

\* size_t, of SizeBits bits.
SizeBits == 3
SizeModulus == 2 ^ SizeBits

\* set_discard that sets the flag and leaves the elements and the size alone.
set_discard_flag_only(b) == [b EXCEPT !.discard = TRUE]

\* set_discard()
set_discard(b) == [b EXCEPT !.elements_ = <<>>, !.contents_size_ = 0, !.discard = TRUE]

\* try_add_size(delta): whether it succeeded and the buffer it leaves.
try_add_size(b, delta) ==
    LET added == (b.contents_size_ + delta) % SizeModulus
    IN IF b.discard THEN [ok |-> FALSE, b |-> b]
       ELSE IF added < delta
       THEN [ok |-> FALSE, b |-> set_discard([b EXCEPT !.contents_size_ = added])]
       ELSE IF b.buffer_limit_ > 0 /\ added > b.buffer_limit_
       THEN [ok |-> FALSE, b |-> set_discard([b EXCEPT !.contents_size_ = added])]
       ELSE [ok |-> TRUE, b |-> [b EXCEPT !.contents_size_ = added]]

\* append(begin, end, sep), [begin, end) being the characters of s.
append(b, s, sep) ==
    LET \* t is what try_add_size returned.
        added(t) ==
          IF ~t.ok THEN t.b
          ELSE IF /\ sep = inferred
                  /\ t.b.elements_ # <<>>
                  /\ Back(t.b.elements_).separation # explicitly
          THEN [t.b EXCEPT !.elements_[Len(t.b.elements_)].contents = @ \o s]
          ELSE [t.b EXCEPT !.elements_ = Append(@, [contents |-> s, separation |-> sep])]
    IN added(try_add_size(b, Len(s)))

no_op == [op |-> "none"]

MaxElements == 3   \* the most elements the buffer is let grow to
BufferStrings == {<<>>, <<"a">>, <<"a", "b">>, <<"a", "b", "c">>}

BufferAppend ==
    /\ pc = "buffer"
    /\ \E s \in BufferStrings, sep \in {inferred, explicitly} :
         /\ Len(append(buffer, s, sep).elements_) <= MaxElements
         /\ buffer' = append(buffer, s, sep)
         /\ buffer_op' = [op |-> "append", contents |-> s, separation |-> sep]
    /\ UNCHANGED <<input, flags, vars, history, users, out_completions, out_before, errors,
                   completions, output_storage, total_result, stage, comp_idx, retval, pc,
                   trace, out_cmd, out_args, home_str, unexpanded>>

BufferSetDiscard ==
    /\ pc = "buffer"
    /\ buffer' = set_discard(buffer)
    /\ buffer_op' = [op |-> "set_discard"]
    /\ UNCHANGED <<input, flags, vars, history, users, out_completions, out_before, errors,
                   completions, output_storage, total_result, stage, comp_idx, retval, pc,
                   trace, out_cmd, out_args, home_str, unexpanded>>

\* reset_discard()
BufferResetDiscard ==
    /\ pc = "buffer"
    /\ buffer' = [buffer EXCEPT !.discard = FALSE]
    /\ buffer_op' = [op |-> "reset_discard"]
    /\ UNCHANGED <<input, flags, vars, history, users, out_completions, out_before, errors,
                   completions, output_storage, total_result, stage, comp_idx, retval, pc,
                   trace, out_cmd, out_args, home_str, unexpanded>>

NextBuffer ==
    \/ BufferAppend
    \/ BufferSetDiscard
    \/ BufferResetDiscard

(***************************************************************************)
(* The calls that are checked: tokens built from a few pieces of syntax,   *)
(* a handful of flag sets and one environment.                             *)
(***************************************************************************)
MaxParts == 2   \* the most pieces a token is made of
MaxRefs == 2    \* the most variable references in a token of VarSpec

\* All concatenations of at most n pieces.
RECURSIVE Tokens(_, _)
Tokens(pieces, n) ==
    IF n = 0 THEN {<<>>}
    ELSE LET shorter == Tokens(pieces, n - 1)
         IN shorter \cup {t \o a : t \in shorter, a \in pieces}

Atoms ==
    {<<"a">>, <<"$", "x">>, <<"\"", "$", "x", "\"">>, <<"[", "0", "]">>,
     <<"{", "a", ",", "b", "}">>, <<"{", "1", ",", "2", "}">>,
     <<"{", "a", ",", "*", "}">>, <<"{", "*", ",", "a", "}">>, <<"{">>,
     <<"*">>, <<"~">>, <<"(", "c", ")">>}

SlowAtoms ==
    {<<"a">>, <<"/">>, <<"~">>, <<"%">>, <<",">>, <<" ">>, <<".">>, <<"[", "0", "]">>,
     <<"$", "x">>, <<"*">>}

Prefixes == {<<>>, <<"p", "-">>}
Suffixes == {<<>>, <<"-", "s">>}
Quotes == {<<>>, <<"\"">>}

Refs ==
    {<<"$", "x">>, <<"$", "e">>, <<"$", "z">>, <<"$", "c">>, <<"$", "u">>,
     <<"$", "u", "[", "1", "]">>, <<"$", "u", "[", "2", ".", ".", "1", "]">>}

VarTokens ==
    {q \o p \o r \o s \o q :
        q \in Quotes, p \in Prefixes, r \in Tokens(Refs, MaxRefs), s \in Suffixes}

FlagSets ==
    {{}, {skip_variables}, {skip_home_directories}, {skip_cmdsubst}, {skip_wildcards},
     {for_completions}}

env_var_t(vals, delimiter) == [vals |-> vals, delimiter |-> delimiter]

\* x is a list, e an empty list, z one empty string, c a list joined by colons;
\* u is not set.
Env ==
    (<<"x">> :> env_var_t(<< <<"a">>, <<"b">> >>, " "))
    @@ (<<"e">> :> env_var_t(<<>>, " "))
    @@ (<<"z">> :> env_var_t(<< <<>> >>, " "))
    @@ (<<"c">> :> env_var_t(<< <<"a">>, <<>>, <<"b">> >>, ":"))
    @@ (HOME_name :> env_var_t(<< <<"/", "h">> >>, " "))

\* The state before a call of expand_string proper: nothing of the other entry
\* points is in use.
InitCallers ==
    /\ out_cmd = <<>>
    /\ out_args = <<>>
    /\ home_str = <<>>
    /\ unexpanded = <<>>
    /\ buffer = separated_buffer_t(0)
    /\ buffer_op = no_op

InitExpander ==
    /\ history = [is_main_thread |-> TRUE, items |-> << <<"l", "s">> >>]
    /\ users = (<<"f">> :> <<"/", "f">>)
    /\ errors = <<>>
    /\ completions = <<>>
    /\ output_storage = <<>>
    /\ total_result = ok
    /\ stage = 0
    /\ comp_idx = 0
    /\ retval = "none"
    /\ trace = <<>>

InitCallIn(tokens, flag_sets, envs) ==
    /\ input \in tokens
    /\ flags \in flag_sets
    /\ vars \in envs
    /\ out_before \in {<<>>, <<Comp(<<"o">>)>>}
    /\ out_completions = out_before
    /\ pc = "call"
    /\ InitExpander
    /\ InitCallers

InitCall(tokens, flag_sets) == InitCallIn(tokens, flag_sets, {Env})

Init == InitCall(Tokens(Atoms, MaxParts), FlagSets)

InitSlow == InitCall(Tokens(SlowAtoms, MaxParts), FlagSets)

InitVars == InitCall(VarTokens, {{}, {skip_cmdsubst}, {skip_home_directories}})

\* Tokens with one top-level brace group, whole or cut short: a group of at most
\* MaxItems items, one of which may hold a nested group, between a prefix and a
\* suffix.
MaxItems == 3   \* the most items of a brace group in a token of BraceSpec
NestedItem == <<"b", "{", "1", ",", "2", "}">>
BraceItems == {<<>>, <<"1">>, NestedItem}
ItemLists == UNION {[1..n -> BraceItems] : n \in 2..MaxItems}
BracePrefixes == {<<>>, <<"a">>}
BraceSuffixes == {<<>>, <<"d">>}
BraceGroupOf(items) == <<"{">> \o join_strings(items, ",") \o <<"}">>
WholeBraceTokens ==
    {p \o BraceGroupOf(items) \o s :
        p \in BracePrefixes, items \in ItemLists, s \in BraceSuffixes}
CutBraceTokens ==
    UNION {{SubSeq(t, 1, n) : n \in 2..(Len(t) - 1)} :
                    t \in {<<"a">> \o BraceGroupOf(items) : items \in [1..2 -> BraceItems]}}

InitBraces ==
    \/ InitCall(WholeBraceTokens, {{}, {skip_wildcards}})
    \/ InitCall(CutBraceTokens, {{}, {for_completions}})

\* Tokens around a command substitution: a substitution with or without a slice
\* of one index between -MaxIndex and MaxIndex, followed by a tail; tokens with a
\* parenthesis that nothing matches; tokens without a parenthesis.
MaxIndex == 3   \* the largest slice index in a token of CmdSpec
IndexChars(i) ==
    (IF i < 0 THEN <<"-">> ELSE <<>>)
    \o <<CHOOSE d \in Digits : DigitValue(d) = (IF i < 0 THEN 0 - i ELSE i)>>
CmdSlices == {<<>>} \cup {<<"[">> \o IndexChars(i) \o <<"]">> : i \in (-MaxIndex)..MaxIndex}
Subst == <<"(", "c", ")">>
CmdTails == {<<>>, <<"-", "s">>, Subst, <<"(">>, <<")">>, <<"-", "(">>}
SubstTokens == {p \o Subst \o sl \o t : p \in Prefixes, sl \in CmdSlices, t \in CmdTails}
UnmatchedTokens == {<<"(">>, <<"a", "(">>, <<")">>, <<"a", ")">>, <<"(", "(", "c", ")">>}
PlainTokens == {<<"$", "x">>, <<"p", "-", "\"", "a", "\"">>, <<"a", "[", "1", "]">>}
\* Tokens with two or three substitutions of different commands.
SeveralTokens ==
    {<<"(", "c", ")", "(", "d", ")">>, <<"(", "c", ")", "[", "1", "]", "(", "d", ")">>,
     <<"(", "c", ")", "[", "0", "]", "(", "d", ")">>,
     <<"(", "c", ")", "-", "(", "d", ")", "(", "e", ")">>,
     <<"(", "c", ")", "(", "d", ")", ")", "(", "e", ")">>}
CmdTokens == SubstTokens \cup UnmatchedTokens \cup PlainTokens \cup SeveralTokens

InitCmd ==
    InitCall(CmdTokens, {{}, {skip_cmdsubst}, command_and_args_flags,
                         {skip_cmdsubst, for_completions}})

\* Tokens with a sliced variable: one index, two indices or a range, each index
\* between -MaxIndex and MaxIndex, after a prefix and before a suffix; and a sliced
\* command substitution.
Indices == (-MaxIndex)..MaxIndex
SliceOne(i) == <<"[">> \o IndexChars(i) \o <<"]">>
SliceTwo(i, j) == <<"[">> \o IndexChars(i) \o <<" ">> \o IndexChars(j) \o <<"]">>
SliceRange(i, j) == <<"[">> \o IndexChars(i) \o <<".", ".">> \o IndexChars(j) \o <<"]">>
SliceTexts ==
    {SliceOne(i) : i \in Indices}
    \cup {SliceTwo(i, j) : i, j \in Indices}
    \cup {SliceRange(i, j) : i, j \in Indices}
SliceVars == {<<"x">>, <<"e">>, <<"z">>, <<"c">>, <<"u">>}
SlicePres == {<<>>, <<"p", "-">>, <<"\\", " ">>}
SlicePosts == {<<>>, <<"$", "e">>}
SliceTokens ==
    {pre \o <<"$">> \o v \o sl \o post :
        pre \in SlicePres, v \in SliceVars, sl \in SliceTexts, post \in SlicePosts}
    \cup {Subst \o SliceOne(i) : i \in Indices}

InitSlices == InitCall(SliceTokens, {{}})

\* Tokens for the home directory stage: a tilde, alone or with the name of a user
\* the database has (f) or lacks (g), before a tail; tokens that do not start with
\* a tilde; and environments in which HOME is a path, a path that is not normal,
\* one empty string, an empty list, or missing.
WithHome(vals) ==
    [n \in DOMAIN Env |-> IF n = HOME_name THEN env_var_t(vals, " ") ELSE Env[n]]
WithoutHome == [n \in DOMAIN Env \ {HOME_name} |-> Env[n]]
HomeEnvs ==
    {Env, WithHome(<< <<"/", "h", "/", ".", "/", "/", "m", "/">> >>), WithHome(<< <<>> >>),
     WithHome(<<>>), WithoutHome}
TildeHeads == {<<"~">>, <<"~", "f">>, <<"~", "g">>}
TildeTails == {<<>>, <<"/">>, <<"/", "x">>, <<"/", "{", "x", ",", "y", "}">>, <<"/", "h">>}
HomeTokens ==
    {h \o t : h \in TildeHeads, t \in TildeTails}
    \cup {<<"a", "~">>, <<"\"", "~", "\"">>, <<"/", "h", "/", "$", "e">>, <<"%">>, <<"$", "x">>}

InitHome == InitCallIn(HomeTokens, {{}, {skip_home_directories}, {for_completions}}, HomeEnvs)

\* Arguments for the tilde functions: tokens as the user typed them and lists of at
\* most two completions, with and without COMPLETE_REPLACES_TOKEN, for
\* unexpand_tildes; paths for replace_home_directory_with_tilde.
TildeInputs ==
    {<<>>, <<"a">>, <<"~">>, <<"~", "/", "x">>, <<"~", "f">>, <<"~", "f", "/", "x">>,
     <<"~", "g", "/", "x">>}
TildeStrings ==
    {<<>>, <<"x">>, <<"/", "h">>, <<"/", "h", "/", "x">>, <<"/", "h", "x">>,
     <<"/", "f", "/", "x">>, <<"~", "/", "x">>, <<"~", "g", "/", "x">>}
TildeCompletions ==
    [completion : TildeStrings, flags : {{}, {COMPLETE_REPLACES_TOKEN}}]
CompletionLists == UNION {[1..n -> TildeCompletions] : n \in 0..2}
TildePaths ==
    {<<>>, <<"x">>, <<"h", "/", "x">>, <<"/">>, <<"/", "x">>, <<"/", "h">>, <<"/", "h", "/">>,
     <<"/", "h", "/", "x">>, <<"/", "h", "x">>, <<"/", "h", "/", "m", "/", "x">>,
     <<"~", "/", "x">>}

InitTilde ==
    /\ flags = {}
    /\ vars \in HomeEnvs
    /\ out_before = <<>>
    /\ out_completions = <<>>
    /\ InitExpander
    /\ out_cmd = <<>>
    /\ out_args = <<>>
    /\ home_str = <<>>
    /\ buffer = separated_buffer_t(0)
    /\ buffer_op = no_op
    /\ \/ /\ pc = "unexpand"
          /\ input \in TildeInputs
          /\ unexpanded \in {<<cs>> : cs \in CompletionLists}
       \/ /\ pc = "replace"
          /\ input \in TildePaths
          /\ unexpanded = <<>>

\* Tokens for the wildcard stage: with and without a wildcard, with a quoted part
\* (which leaves internal separators), relative and absolute; an environment with
\* three directories in CDPATH and two in PATH beside the one that has neither; and
\* the flags the stage looks at.
WildEnv ==
    Env
    @@ (CDPATH_name :> env_var_t(<< <<"/", "c">>, <<"d", "/">>, <<".">> >>, ":"))
    @@ (PATH_name :> env_var_t(<< <<"/", "b", "/">>, <<"p", "/">> >>, ":"))
WildTokens ==
    {<<"*">>, <<"a", "?">>, <<"/", "a", "*">>, <<".", "/", "*">>, <<"a", "/", "*", "*">>,
     <<"\"", "a", "\"", "*">>, <<"\"", "a", "\"", "b">>, <<"{", "a", ",", "*", "}">>,
     <<"a">>, <<"\\", "*">>}
WildFlagSets ==
    {{}, {special_for_cd}, {special_for_command}, {executables_only}, {skip_wildcards},
     {for_completions}, {for_completions, skip_wildcards},
     {for_completions, executables_only}, {for_completions, special_for_cd}}

InitWild == InitCallIn(WildTokens, WildFlagSets, {Env, WildEnv})

\* Calls of expand_to_command_and_args: clean tokens, tokens that expand to none,
\* one or several completions, tokens with a wildcard and tokens that fail; the
\* caller's command and arguments with and without something in them.
CommandTokens ==
    {<<>>, <<"l", "s">>, <<"a", "[", "1", "]">>, <<"$", "x">>, <<"$", "e">>,
     <<"\"", "$", "x", "\"">>, <<"{", "l", ",", "-", "a", ",", "b", "}">>,
     <<"$", "c", "-", "{", "1", ",", "2", "}">>, <<"~", "/", "x">>, <<"*">>,
     <<"{", "a", ",", "b", "}", "*">>, <<"{", "a", ",", "*", "}">>, <<"(", "c", ")">>, <<"$", "x", "[", "0", "]">>,
     <<"a", "{">>}

InitCommand ==
    /\ input \in CommandTokens
    /\ flags = {}
    /\ vars = Env
    /\ out_before = <<>>
    /\ out_completions = <<>>
    /\ pc = "command"
    /\ InitExpander
    /\ out_cmd \in {<<>>, <<"o", "l", "d">>}
    /\ out_args \in {<<>>, << <<"r">> >>}
    /\ home_str = <<>>
    /\ unexpanded = <<>>
    /\ buffer = separated_buffer_t(0)
    /\ buffer_op = no_op

\* Buffers without a limit and with a limit below and above the longest string.
BufferLimits == {0, 2, 5}

InitBuffer ==
    /\ input = <<>>
    /\ flags = {}
    /\ vars = Env
    /\ out_before = <<>>
    /\ out_completions = <<>>
    /\ pc = "buffer"
    /\ InitExpander
    /\ out_cmd = <<>>
    /\ out_args = <<>>
    /\ home_str = <<>>
    /\ unexpanded = <<>>
    /\ buffer \in {separated_buffer_t(limit) : limit \in BufferLimits}
    /\ buffer_op = no_op

Spec == Init /\ [][Next]_allvars

SlowSpec == InitSlow /\ [][NextSlow]_allvars

VarSpec == InitVars /\ [][Next]_allvars

BraceSpec == InitBraces /\ [][Next]_allvars

CmdSpec == InitCmd /\ [][Next]_allvars

SliceSpec == InitSlices /\ [][Next]_allvars

HomeSpec == InitHome /\ [][Next]_allvars

TildeSpec == InitTilde /\ [][NextTilde]_allvars

WildSpec == InitWild /\ [][Next]_allvars

CommandSpec == InitCommand /\ [][NextCommand]_allvars

BufferSpec == InitBuffer /\ [][NextBuffer]_allvars

(***************************************************************************)
(* The properties.                                                         *)
(***************************************************************************)
\* The strings the call appended to the caller's list.
Appended == SubSeq(Strings(out_completions), Len(out_before) + 1, Len(out_completions))

\* The results the stage with index k returned, in the order of its completions.
StageResults(k) ==
    LET of_stage == SelectSeq(trace, LAMBDA e : e.stage = k)
    IN [i \in 1..Len(of_stage) |-> of_stage[i].result]

Range(f) == {f[i] : i \in DOMAIN f}

\* C1: for an input without sentinels and any flags, when expand_string returns a
\* result other than error, no string it appended to the output list contains a
\* sentinel.
C1_NoSentinelInOutput ==
    (pc = "done" /\ retval # error /\ ~Contains(input, Sentinels)) =>
        \A i \in 1..Len(Appended) : ~Contains(Appended[i], Sentinels)

\* C2: whenever expand_string returns error, the caller's output list is exactly
\* what it was before the call.
C2_ErrorLeavesOutputUnchanged ==
    (pc = "done" /\ retval = error) => out_completions = out_before

\* An error return after the failing stage had already produced completions, for a
\* caller whose list was not empty.
C2_Witness ==
    /\ pc = "done"
    /\ retval = error
    /\ out_before # <<>>
    /\ completions # <<>>

\* C3: on the slow path, if the wildcard stage returned wildcard_match for some
\* completion and error for none, expand_string does not return wildcard_no_match.
C3_MatchNotMasked ==
    (/\ pc = "done"
     /\ wildcard_match \in Range(StageResults(4))
     /\ error \notin Range(StageResults(4)))
    => retval # wildcard_no_match

\* C4: on the slow path, if the wildcard stage returned wildcard_no_match for some
\* completion and neither wildcard_match nor error for any, expand_string returns
\* wildcard_no_match, whatever the position of the completions that returned ok.
C4_NoMatchDowngradesOk ==
    (/\ pc = "done"
     /\ wildcard_no_match \in Range(StageResults(4))
     /\ wildcard_match \notin Range(StageResults(4))
     /\ error \notin Range(StageResults(4)))
    => retval = wildcard_no_match

\* The items of a brace group of the tokens: {a,b} and {1,2}.
LeftItems == << <<"a">>, <<"b">> >>
RightItems == << <<"1">>, <<"2">> >>
BraceGroup(items) == <<"{">> \o join_strings(items, ",") \o <<"}">>

\* C10: two adjacent brace groups expand with the leftmost group varying slowest:
\* {a,b}{1,2} gives a1, a2, b1, b2 in that order.
C10_LeftmostGroupSlowest ==
    (/\ pc = "done"
     /\ input = BraceGroup(LeftItems) \o BraceGroup(RightItems)
     /\ for_completions \notin flags)
    => /\ retval = ok
       /\ Appended = [k \in 1..4 |-> LeftItems[((k - 1) \div 2) + 1]
                                      \o RightItems[((k - 1) % 2) + 1]]

\* C5: for a clean input and flags without for_completions, the five stages
\* produce what the early out produces: the result ok and the input as the only
\* completion.
C5_FastPathEqualsSlowPath ==
    (pc = "done" /\ for_completions \notin flags /\ expand_is_clean(input)) =>
        /\ retval = ok
        /\ out_completions = Append(out_before, Comp(input))

\* The five stages have run on a clean input that holds a tilde or a percent sign
\* after its first character.
C5_Witness ==
    /\ pc = "done"
    /\ for_completions \notin flags
    /\ expand_is_clean(input)
    /\ Contains(input, UNCLEAN_FIRST)
    /\ Len(trace) = 5
    /\ out_completions = Append(out_before, Comp(input))

\* The variables of Env the tokens refer to, and their values joined by their
\* delimiters, written out.
VarNames == {<<"x">>, <<"e">>, <<"z">>, <<"c">>}
Unset == <<"u">>
Joined ==
    (<<"x">> :> <<"a", " ", "b">>) @@ (<<"e">> :> <<>>) @@ (<<"z">> :> <<>>)
    @@ (<<"c">> :> <<"a", ":", ":", "b">>)

\* C6: unquoted, a variable between a literal prefix and a literal suffix expands
\* to one completion per value, prefix + value + suffix, in the order of the values,
\* with no separator left in it.
C6_UnquotedVariable ==
    \A p \in Prefixes, s \in Suffixes, v \in VarNames :
        (pc = "done" /\ input = p \o <<"$">> \o v \o s) =>
            /\ retval = ok
            /\ Appended = [i \in 1..Len(vars[v].vals) |-> p \o vars[v].vals[i] \o s]

\* prefix-$c-suffix has been expanded to its three completions.
C6_Witness ==
    /\ pc = "done"
    /\ input = <<"p", "-", "$", "c", "-", "s">>
    /\ Appended = << <<"p", "-", "a", "-", "s">>, <<"p", "-", "-", "s">>,
                     <<"p", "-", "b", "-", "s">> >>

\* C7: in double quotes, a variable that is set expands to exactly one completion,
\* its values joined by its delimiter, also between a quoted prefix and suffix.
C7_QuotedVariable ==
    \A p \in Prefixes, s \in Suffixes, v \in VarNames :
        (pc = "done" /\ input = <<"\"">> \o p \o <<"$">> \o v \o s \o <<"\"">>) =>
            /\ retval = ok
            /\ Appended = <<p \o Joined[v] \o s>>

\* "p-$x-s" has been expanded to the one completion p-a b-s.
C7_Witness ==
    /\ pc = "done"
    /\ input = <<"\"", "p", "-", "$", "x", "-", "s", "\"">>
    /\ Appended = << <<"p", "-", "a", " ", "b", "-", "s">> >>

\* The slices the tokens put after the unset variable.
Slices == {<<>>, <<"[", "1", "]">>, <<"[", "2", ".", ".", "1", "]">>}

\* C8: unquoted, a variable that is not set, with or without a valid slice, makes
\* the variable stage succeed with no completion and no error record.
C8_MissingVariable ==
    \A sl \in Slices :
        (pc = "done" /\ Unset \notin DOMAIN vars /\ input = <<"$">> \o Unset \o sl) =>
            /\ StageResults(1) = <<ok>>
            /\ StageResults(2) = <<>>
            /\ errors = <<>>
            /\ retval = ok
            /\ Appended = <<>>

\* $u[1] has been expanded: the variable stage ran and no later stage had anything
\* to run on.
C8_Witness ==
    /\ pc = "done"
    /\ input = <<"$">> \o Unset \o <<"[", "1", "]">>
    /\ StageResults(1) = <<ok>>
    /\ StageResults(3) = <<>>
    /\ out_completions = out_before

\* The completions of `tokens` after the stage F, when F calls no collaborator.
RECURSIVE Over(_, _)
Over(F(_), tokens) ==
    IF tokens = <<>> THEN <<>>
    ELSE Strings(F(Head(tokens)).out) \o Over(F, Tail(tokens))

\* What the five stages make of a token for which no stage calls a collaborator or
\* fails.
Expansion(in, fl) ==
    Over(LAMBDA t4 : stage_wildcards(t4, fl, <<>>, <<>>),
      Over(LAMBDA t3 : stage_home_and_self(t3, fl, <<>>),
        Over(LAMBDA t2 : stage_braces(t2, fl, <<>>),
          Over(LAMBDA t1 : stage_variables(t1, fl, <<>>),
            Over(LAMBDA t0 : stage_cmdsubst(t0, fl, <<>>, <<>>), <<in>>)))))

\* C9: in double quotes a variable that is not set concatenates as the empty
\* string: "$u$v" expands to the same one completion as "$v", for v set, set and
\* empty, or not set.
C9_MissingVariableInQuotes ==
    \A v \in VarNames \cup {Unset} :
        (pc = "done" /\ Unset \notin DOMAIN vars
         /\ input = <<"\"", "$">> \o Unset \o <<"$">> \o v \o <<"\"">>) =>
            /\ retval = ok
            /\ Len(Appended) = 1
            /\ Appended = Expansion(<<"\"", "$">> \o v \o <<"\"">>, flags)

\* "$u$x" has been expanded to the one completion "a b".
C9_Witness ==
    /\ pc = "done"
    /\ input = <<"\"", "$", "u", "$", "x", "\"">>
    /\ Appended = << <<"a", " ", "b">> >>

\* The strings the stage with index k was run on, in order.
StageInputs(k) ==
    LET of_stage == SelectSeq(trace, LAMBDA e : e.stage = k)
    IN [i \in 1..Len(of_stage) |-> of_stage[i].input]

\* What an item of BraceItems expands to.
ItemExpansion(item) ==
    IF item = NestedItem THEN << <<"b", "1">>, <<"b", "2">> >> ELSE <<item>>

\* prefix + expansion + suffix for every expansion of every item, in item order.
RECURSIVE Spliced(_, _, _)
Spliced(p, items, s) ==
    IF items = <<>> THEN <<>>
    ELSE LET of_item(ex) == [i \in 1..Len(ex) |-> p \o ex[i] \o s]
         IN of_item(ItemExpansion(Head(items))) \o Spliced(p, Tail(items), s)

\* C11: for a token with one top-level brace group the brace stage emits prefix +
\* item + suffix once per item at depth 0, in item order, a nested group inside an
\* item expanded in place, and no emitted string holds a brace sentinel.
C11_SingleBraceGroup ==
    \A p \in BracePrefixes, s \in BraceSuffixes, items \in ItemLists :
        (pc = "done" /\ input = p \o BraceGroupOf(items) \o s) =>
            /\ StageResults(2) = <<ok>>
            /\ StageInputs(3) = Spliced(p, items, s)
            /\ for_completions \notin flags =>
                 (retval = ok /\ Appended = Spliced(p, items, s))
            /\ \A i \in 1..Len(StageInputs(3)) :
                 ~Contains(StageInputs(3)[i], {BRACE_BEGIN, BRACE_END, BRACE_SEP, BRACE_SPACE})

\* a{b{1,2},1}d has been expanded to ab1d, ab2d, a1d.
C11_Witness ==
    /\ pc = "done"
    /\ input = <<"a", "{", "b", "{", "1", ",", "2", "}", ",", "1", "}", "d">>
    /\ Appended = << <<"a", "b", "1", "d">>, <<"a", "b", "2", "d">>, <<"a", "1", "d">> >>

\* The number of opening braces of a token that no closing brace matches, for a
\* token without quotes, escapes and stray closing braces.
OpenBraces(in) ==
    Cardinality({i \in 1..Len(in) : in[i] = "{"}) - Cardinality({i \in 1..Len(in) : in[i] = "}"})

\* C12: for a token that leaves one or more brace groups unclosed, at any depth, the
\* brace stage returns ok with completions when for_completions is set, and returns
\* error with a "Mismatched braces" syntax error when it is not.
C12_UnclosedBrace ==
    (pc = "done" /\ OpenBraces(input) > 0) =>
        IF for_completions \in flags
        THEN StageResults(2) = <<ok>> /\ StageInputs(3) # <<>>
        ELSE /\ StageResults(2) = <<error>>
             /\ retval = error
             /\ \E i \in 1..Len(errors) :
                  errors[i].code = parse_error_syntax /\ errors[i].text = "Mismatched braces"

\* The running count of open parentheses of a token without quotes and escapes,
\* after its first n characters.
ParenDepth(in, n) ==
    Cardinality({i \in 1..n : in[i] = "("}) - Cardinality({i \in 1..n : in[i] = ")"})

\* Some parenthesis of the token has no partner.
Unmatched(in) ==
    \/ ParenDepth(in, Len(in)) # 0
    \/ \E n \in 1..Len(in) : ParenDepth(in, n) < 0

\* C13: a token with an unmatched parenthesis, also one in the tail after a whole
\* substitution, makes expand_string return error and append nothing, with or
\* without skip_cmdsubst.
C13_UnmatchedParenthesis ==
    (pc = "done" /\ Unmatched(input)) =>
        (retval = error /\ out_completions = out_before)

\* The first parenthesis of a token without quotes and escapes, or NUL.
FirstParen(in) ==
    LET at == {i \in 1..Len(in) : in[i] \in {"(", ")"}}
    IN IF at = {} THEN NUL ELSE in[CHOOSE i \in at : \A j \in at : i <= j]

\* The calls of the executor the command-substitution stage made.
ExecCalls == Concat([i \in 1..Len(trace) |-> IF trace[i].stage = 0 THEN trace[i].calls ELSE <<>>])

\* The stage recorded that command substitutions are not allowed.
NotAllowedRecorded ==
    \E i \in 1..Len(errors) :
        /\ errors[i].code = parse_error_cmdsubst
        /\ errors[i].text = "Command substitutions not allowed"

\* The command-substitution stage passed the token on as it was.
PassedThrough == StageResults(0) = <<ok>> /\ StageInputs(1) = <<input>>

\* C14 as stated: with skip_cmdsubst the executor is never invoked, a token with a
\* substitution records a cmdsubst error and returns error, and every other token
\* passes through unchanged as a single completion.
C14_SkipCmdsubst_AsStated ==
    (pc = "done" /\ skip_cmdsubst \in flags /\ StageResults(0) # <<>>) =>
        /\ ExecCalls = <<>>
        /\ IF FirstParen(input) = "("
           THEN StageResults(0) = <<error>> /\ NotAllowedRecorded /\ retval = error
           ELSE PassedThrough

\* C14: with skip_cmdsubst the executor is never invoked; a token whose first
\* parenthesis opens a substitution records a cmdsubst error and returns error; a
\* token whose first parenthesis is a closing one returns error and records nothing;
\* a token without a parenthesis passes through unchanged as a single completion.
C14_SkipCmdsubst ==
    (pc = "done" /\ skip_cmdsubst \in flags /\ StageResults(0) # <<>>) =>
        /\ ExecCalls = <<>>
        /\ CASE FirstParen(input) = "(" ->
                  StageResults(0) = <<error>> /\ NotAllowedRecorded /\ retval = error
             [] FirstParen(input) = ")" ->
                  StageResults(0) = <<error>> /\ errors = <<>> /\ retval = error
             [] OTHER -> PassedThrough

\* With the flags of expand_to_command_and_args, p-(c)-s has been refused without a
\* call of the executor.
C14_Witness ==
    /\ pc = "done"
    /\ flags = command_and_args_flags
    /\ input = <<"p", "-">> \o Subst \o <<"-", "s">>
    /\ retval = error
    /\ NotAllowedRecorded
    /\ ExecCalls = <<>>

\* The lines the executor may return, escaped, written out.
Escaped ==
    (<<"a">> :> <<"a">>) @@ (<<"b">> :> <<"b">>) @@ (<<"a", " ", "b">> :> <<"a", "\\", " ", "b">>)

\* The tails of a substitution that have no unmatched parenthesis.
WholeTails == {<<>>, <<"-", "s">>, Subst}

\* What the tail t expands to, when the executor's second call returned `lines`.
TailResults(t, lines) ==
    IF t = Subst
    THEN [j \in 1..Len(lines) |->
            <<INTERNAL_SEPARATOR>> \o Escaped[lines[j]] \o <<INTERNAL_SEPARATOR>>]
    ELSE <<t>>

\* prefix + separator + escaped line + separator + tail result, the lines outermost.
Product(p, lines, tails) ==
    [k \in 1..(Len(lines) * Len(tails)) |->
        p \o <<INTERNAL_SEPARATOR>> \o Escaped[lines[((k - 1) \div Len(tails)) + 1]]
          \o <<INTERNAL_SEPARATOR>> \o tails[((k - 1) % Len(tails)) + 1]]

\* The executor's calls all succeeded.
ExecSucceeded ==
    \A i \in 1..Len(ExecCalls) : ExecCalls[i].ret = 0 /\ ExecCalls[i].status = STATUS_CMD_OK

\* C15: for a token P(cmd)T the command-substitution stage emits the product of the
\* executor's lines and the tail's results, P + separator + escaped line + separator
\* + tail result, the lines as the outer index; in the end p-(c)-s yields one
\* argument per line, p- + line + -s, a line with a space staying one argument.
C15_CmdsubstProduct ==
    \A p \in Prefixes, t \in WholeTails :
        (pc = "done" /\ input = p \o Subst \o t /\ skip_cmdsubst \notin flags
         /\ ExecSucceeded) =>
            /\ Len(ExecCalls) = IF t = Subst THEN 2 ELSE 1
            /\ StageResults(0) = <<ok>>
            /\ StageInputs(1) =
                 Product(p, ExecCalls[1].lines,
                         TailResults(t, ExecCalls[Len(ExecCalls)].lines))
            /\ t # Subst =>
                 /\ retval = ok
                 /\ Appended = [i \in 1..Len(ExecCalls[1].lines) |->
                                  p \o ExecCalls[1].lines[i] \o t]

\* p-(c)(c) has been expanded with the lines a, b returned for both substitutions.
C15_Witness ==
    /\ pc = "done"
    /\ input = <<"p", "-">> \o Subst \o Subst
    /\ Len(ExecCalls) = 2
    /\ ExecCalls[1].lines = << <<"a">>, <<"b">> >>
    /\ ExecCalls[2].lines = << <<"a">>, <<"b">> >>
    /\ Appended = << <<"p", "-", "a", "a">>, <<"p", "-", "a", "b">>,
                     <<"p", "-", "b", "a">>, <<"p", "-", "b", "b">> >>

\* C16: a token containing $v[0], v set or not, makes expansion return error and
\* record a syntax error whose source_start is the offset of that 0 in the token,
\* whatever precedes the variable.
C16_ZeroIndexOffset ==
    \A pre \in SlicePres, v \in SliceVars, post \in SlicePosts :
        (pc = "done" /\ input = pre \o <<"$">> \o v \o SliceOne(0) \o post) =>
            /\ retval = error
            /\ \E i \in 1..Len(errors) :
                 /\ errors[i].code = parse_error_syntax
                 /\ errors[i].source_start = Len(pre) + 1 + Len(v) + 1

\* The slices of SliceTexts with the literal 0 as one of their indices.
ZeroSlices ==
    {SliceOne(0)}
    \cup {SliceTwo(i, j) : i \in {0}, j \in Indices} \cup {SliceTwo(i, j) : i \in Indices, j \in {0}}
    \cup {SliceRange(i, j) : i \in {0}, j \in Indices}
    \cup {SliceRange(i, j) : i \in Indices, j \in {0}}

\* The number of values of a variable of Env, 0 for one that is not set.
ValueCount(v) == IF v \in DOMAIN vars THEN Len(vars[v].vals) ELSE 0

\* C17: for a slice with the literal 0 as one of its indices (alone, among several
\* indices, or as an end of a range) parse_slice returns the offset of that 0 as the
\* bad position, whatever the length of the list, and the expansion is a syntax
\* error.
C17_LiteralZeroRejected ==
    \A v \in SliceVars, sl \in ZeroSlices :
        (pc = "done" /\ input = <<"$">> \o v \o sl) =>
            /\ parse_slice(sl, ValueCount(v)).bad_pos # 0
            /\ At(sl, parse_slice(sl, ValueCount(v)).bad_pos) = "0"
            /\ retval = error

\* A list back to front.
Reverse(list) == [k \in 1..Len(list) |-> list[Len(list) - k + 1]]

\* C18: for a list of n >= 1 values the slice [1..-1] selects the indices 1..n and
\* [-1..1] the indices n..1; for an empty list both select nothing and neither is an
\* error.
C18_IdentityAndReverse ==
    \A v \in SliceVars \ {Unset} :
        /\ (pc = "done" /\ input = <<"$">> \o v \o SliceRange(1, -1)) =>
             /\ parse_slice(SliceRange(1, -1), ValueCount(v)) =
                  [bad_pos |-> 0, idx |-> [k \in 1..ValueCount(v) |-> k], end |-> 7]
             /\ retval = ok
             /\ errors = <<>>
             /\ Appended = vars[v].vals
        /\ (pc = "done" /\ input = <<"$">> \o v \o SliceRange(-1, 1)) =>
             /\ parse_slice(SliceRange(-1, 1), ValueCount(v)) =
                  [bad_pos |-> 0, idx |-> [k \in 1..ValueCount(v) |-> ValueCount(v) - k + 1],
                   end |-> 7]
             /\ retval = ok
             /\ errors = <<>>
             /\ Appended = Reverse(vars[v].vals)

\* $c[-1..1] has been expanded to the values of c back to front.
C18_Witness ==
    /\ pc = "done"
    /\ input = <<"$", "c">> \o SliceRange(-1, 1)
    /\ Appended = << <<"b">>, <<>>, <<"a">> >>

\* The 1-based position the index i stands for in a list of n items.
Resolved(i, n) == IF i > -1 THEN i ELSE n + i + 1

\* The items of a list the index i selects: one, or none if it is out of bounds.
Selected(list, i) ==
    IF Resolved(i, Len(list)) \in 1..Len(list) THEN <<list[Resolved(i, Len(list))]>> ELSE <<>>

\* C19: an index out of bounds is dropped without an error: for a variable or a
\* command substitution of n items, the index n selects the last item, n + 1 or any
\* index that resolves below 1 or above n selects nothing, and every string a slice
\* emits is an item of the list.
C19_OutOfBoundsDropped ==
    /\ \A v \in SliceVars \ {Unset}, i \in Indices \ {0} :
         (pc = "done" /\ input = <<"$">> \o v \o SliceOne(i)) =>
             /\ retval = ok
             /\ errors = <<>>
             /\ Appended = Selected(vars[v].vals, i)
    /\ \A i \in Indices \ {0} :
         (pc = "done" /\ input = Subst \o SliceOne(i) /\ ExecSucceeded) =>
             /\ retval = ok
             /\ errors = <<>>
             /\ Appended = Selected(ExecCalls[1].lines, i)
    /\ (pc = "done" /\ retval = ok /\ Len(input) > 3 /\ input[1] = "$" /\ input[3] = "["
        /\ Back(input) = "]" /\ <<input[2]>> \in DOMAIN vars) =>
           \A k \in 1..Len(Appended) : Appended[k] \in Range(vars[<<input[2]>>].vals)

\* $x[3] has been expanded, x having two values: nothing was selected and nothing
\* went wrong.
C19_Witness ==
    /\ pc = "done"
    /\ input = <<"$", "x">> \o SliceOne(3)
    /\ retval = ok
    /\ errors = <<>>
    /\ Appended = <<>>

\* C20: with skip_variables the variable stage rewrites every VARIABLE_EXPAND and
\* every VARIABLE_EXPAND_SINGLE back to a dollar sign and emits exactly one
\* completion, so that $x and "$x" come out with a plain dollar sign and no variable
\* sentinel.
C20_SkipVariables ==
    (pc = "done" /\ skip_variables \in flags) =>
        /\ \A i \in 1..Len(StageResults(1)) : StageResults(1)[i] = ok
        /\ (Len(StageInputs(2)) = Len(StageInputs(1)) \/ error \in Range(StageResults(2)))
        /\ \A i \in 1..Len(StageInputs(2)) :
             ~Contains(StageInputs(2)[i], {VARIABLE_EXPAND, VARIABLE_EXPAND_SINGLE})
        /\ input \in {<<"$", "x">>, <<"\"", "$", "x", "\"">>} =>
             (retval = ok /\ Appended = << <<"$", "x">> >>)

\* What HOME names once normalised, in the environments of HomeEnvs that have one.
NormalHome ==
    IF vars = Env THEN <<"/", "h">> ELSE <<"/", "h", "/", "m">>

HomeUsable ==
    /\ HOME_name \in DOMAIN vars
    /\ vars[HOME_name].vals \notin {<<>>, << <<>> >>}

\* The part of a string from its first slash on.
RECURSIVE FromSlash(_)
FromSlash(t) ==
    IF t = <<>> \/ Head(t) = "/" THEN t ELSE FromSlash(Tail(t))

\* C21: without skip_home_directories the home stage turns a completion that starts
\* with the home sentinel and names no user into the normalised HOME followed by the
\* tail from the first slash on, or into the empty string when HOME is missing or
\* empty; for a user the database lacks it puts the tilde back and leaves the rest;
\* a completion that starts with neither the home nor the process sentinel passes
\* unchanged.
C21_HomeDirectory ==
    (pc = "done" /\ skip_home_directories \notin flags) =>
        \A i \in 1..Len(StageInputs(4)) :
            LET in == StageInputs(3)[i]
                res == StageInputs(4)[i]
            IN IF in # <<>> /\ Head(in) = HOME_DIRECTORY
               THEN IF Len(in) = 1 \/ in[2] = "/"
                    THEN IF HomeUsable THEN res = NormalHome \o FromSlash(in)
                         ELSE res = <<>>
                    ELSE (\A u \in DOMAIN users : ~string_prefixes_string(u, Tail(in)))
                         => res = <<"~">> \o Tail(in)
               ELSE (in = <<>> \/ Head(in) # PROCESS_EXPAND_SELF) => res = in

\* With HOME missing, ~/x has become one empty completion.
C21_Witness ==
    /\ pc = "done"
    /\ vars = WithoutHome
    /\ flags = {}
    /\ input = <<"~", "/", "x">>
    /\ StageInputs(3) = <<<<HOME_DIRECTORY, "/", "x">>>>
    /\ Appended = << <<>> >>

\* C22: unexpand_tildes is idempotent: for every input, environment and completion
\* list, a second call leaves the list, strings and flags, as the first call left it.
C22_UnexpandIdempotent ==
    (pc = "unexpand" /\ Len(unexpanded) >= 3) => unexpanded[3] = unexpanded[2]

\* C29: replace_home_directory_with_tilde returns its argument unchanged unless it
\* is an absolute path that begins with the home directory followed by a slash, and
\* then with exactly that prefix replaced by ~/; when HOME is missing or empty it
\* returns every path unchanged.
C29_ReplaceHomeDirectory ==
    (pc = "done" /\ unexpanded = <<>> /\ trace = <<>> /\ retval = "none") =>
        IF HomeUsable /\ string_prefixes_string(Append(NormalHome, "/"), input)
        THEN home_str = <<"~", "/">> \o Tail0(input, Len(NormalHome) + 1)
        ELSE home_str = input

\* The invocations of the wildcard stage made so far.
WildcardRuns == SelectSeq(trace, LAMBDA e : e.stage = 4)

\* Whether the wildcard stage handed the string of trace entry e to the matcher.
Delegated(e) ==
    wildcards_delegates(remove_internal_separator(e.input, skip_wildcards \in flags), flags)

\* The working directories for the string of trace entry e.
DirsOf(e) ==
    effective_working_dirs(remove_internal_separator(e.input, skip_wildcards \in flags),
                           flags)

\* C23: a wildcard stage that delegates calls the matcher once per effective working
\* directory, in order; it returns wildcard_match when some call returned more than
\* 0 and none less than 0, wildcard_no_match when every call returned 0, and error
\* as soon as a call returns less than 0: no further directory is tried, no further
\* stage invocation follows and expand_string returns error.
C23_WorkingDirectories ==
    \A k \in 1..Len(trace) :
        (trace[k].stage = 4 /\ Delegated(trace[k])) =>
            LET e == trace[k]
                dirs == DirsOf(e)
                n == Len(e.calls)
                cancelled == {j \in 1..n : e.calls[j].rc < 0}
            IN /\ n <= Len(dirs)
               /\ \A j \in 1..n : e.calls[j].dir = dirs[j]
               /\ IF cancelled = {}
                  THEN /\ n = Len(dirs)
                       /\ e.result = IF \E j \in 1..n : e.calls[j].rc > 0
                                     THEN wildcard_match ELSE wildcard_no_match
                  ELSE /\ cancelled = {n}
                       /\ e.result = error
                       /\ k = Len(trace)
                       /\ pc = "done" => retval = error

\* With three directories in CDPATH, the matcher found something in the first and was
\* cancelled in the second: the third was not tried and the call returned error.
C23_Witness ==
    /\ pc = "done"
    /\ retval = error
    /\ Len(WildcardRuns) = 1
    /\ Len(DirsOf(WildcardRuns[1])) = 3
    /\ [j \in 1..Len(WildcardRuns[1].calls) |-> WildcardRuns[1].calls[j].rc] = <<1, -1>>

\* A string without its internal separators and, under skip_wildcards, with its
\* wildcard sentinels as the literal characters.
Scrubbed(t) ==
    LET kept == SelectSeq(t, LAMBDA ch : ch # INTERNAL_SEPARATOR)
    IN IF skip_wildcards \in flags
       THEN [i \in 1..Len(kept) |->
               CASE kept[i] = ANY_CHAR -> "?"
                 [] kept[i] = ANY_STRING -> "*"
                 [] kept[i] = ANY_STRING_RECURSIVE -> "*"
                 [] OTHER -> kept[i]]
       ELSE kept

HasWildcard(t) ==
    \E i \in 1..Len(t) : t[i] \in {ANY_CHAR, ANY_STRING, ANY_STRING_RECURSIVE}

\* 1 to 4: the case of the delegation decision a scrubbed string falls in.
DelegationCase(t) ==
    IF executables_only \in flags /\ HasWildcard(t) THEN 1
    ELSE IF (for_completions \in flags /\ skip_wildcards \notin flags) \/ HasWildcard(t) THEN 2
    ELSE IF for_completions \in flags THEN 3
    ELSE 4

\* The strings a run of wildcard stage invocations emits when none delegates.
RECURSIVE Emitted(_)
Emitted(runs) ==
    IF runs = <<>> THEN <<>>
    ELSE (IF DelegationCase(Scrubbed(Head(runs).input)) = 4
          THEN <<Scrubbed(Head(runs).input)>> ELSE <<>>)
         \o Emitted(Tail(runs))

\* C27: the wildcard stage, on a completion scrubbed of internal separators, (1) does
\* not call the matcher under executables_only when a wildcard sentinel is present,
\* (2) otherwise calls it when completing without skip_wildcards or when a wildcard
\* sentinel is present, (3) otherwise drops the completion when completing and (4)
\* otherwise emits the scrubbed string as its one output, with result ok in (3) and
\* (4); under skip_wildcards the sentinels have become literal ?, *, * and the matcher
\* is called only when completing.
C27_DelegationDecision ==
    /\ \A k \in 1..Len(WildcardRuns) :
          LET e == WildcardRuns[k]
              which == DelegationCase(Scrubbed(e.input))
          IN /\ (which = 2) <=> (e.calls # <<>>)
             /\ which \in {3, 4} => e.result = ok
             /\ (skip_wildcards \in flags /\ e.calls # <<>>) => for_completions \in flags
             /\ skip_wildcards \in flags => ~HasWildcard(Scrubbed(e.input))
    /\ (/\ pc = "done"
        /\ WildcardRuns # <<>>
        /\ \A k \in 1..Len(WildcardRuns) : WildcardRuns[k].calls = <<>>) =>
           Appended = Emitted(WildcardRuns)

\* Under skip_wildcards "a"* has been emitted as a*, and the matcher was not called.
C27_Witness ==
    /\ pc = "done"
    /\ flags = {skip_wildcards}
    /\ input = <<"\"", "a", "\"", "*">>
    /\ Len(WildcardRuns) = 1
    /\ WildcardRuns[1].input = <<INTERNAL_SEPARATOR, "a", INTERNAL_SEPARATOR, ANY_STRING>>
    /\ WildcardRuns[1].calls = <<>>
    /\ Appended = << <<"a", "*">> >>

Ascending(a, b) == [k \in 1..(b - a + 1) |-> a + k - 1]
Descending(a, b) == [k \in 1..(a - b + 1) |-> a - k + 1]
Least(a, b) == IF a < b THEN a ELSE b

\* The indices the range i..j stands for in a list of n items, i and j not 0.
RangeIndices(i, j, n) ==
    IF Resolved(i, n) > n /\ Resolved(j, n) > n THEN <<>>
    ELSE IF i > 0 /\ j < 0 THEN Ascending(i, Resolved(j, n))
    ELSE IF i < 0 /\ j > 0 THEN Descending(Resolved(i, n), j)
    ELSE IF Least(Resolved(i, n), n) <= Least(Resolved(j, n), n)
    THEN Ascending(Least(Resolved(i, n), n), Least(Resolved(j, n), n))
    ELSE Descending(Least(Resolved(i, n), n), Least(Resolved(j, n), n))

\* The items of a list at the positions idx, in that order, those out of bounds
\* left out.
RECURSIVE Picked(_, _)
Picked(list, idx) ==
    IF idx = <<>> THEN <<>>
    ELSE (IF Head(idx) \in 1..Len(list) THEN <<list[Head(idx)]>> ELSE <<>>)
         \o Picked(list, Tail(idx))

\* C26: for a list of n items and a range i..j, neither end the literal 0: when
\* exactly one end is written negative the direction is forced, ascending for a
\* negative second end and descending for a negative first end, the ends are not
\* clamped and a range that would run the other way selects nothing; when both ends
\* are of the same sign kind each resolved end is clamped to n and the range runs
\* from the first to the second; a range both of whose resolved ends exceed n selects
\* nothing.
C26_RangeDirection ==
    \A v \in SliceVars \ {Unset}, i \in Indices \ {0}, j \in Indices \ {0} :
        (pc = "done" /\ input = <<"$">> \o v \o SliceRange(i, j)) =>
            /\ parse_slice(SliceRange(i, j), ValueCount(v)).bad_pos = 0
            /\ parse_slice(SliceRange(i, j), ValueCount(v)).idx = RangeIndices(i, j, ValueCount(v))
            /\ retval = ok
            /\ Appended = Picked(vars[v].vals, RangeIndices(i, j, ValueCount(v)))

\* $z[2..-1] has been expanded, z having one value: the range selected nothing.
C26_Witness ==
    /\ pc = "done"
    /\ input = <<"$", "z">> \o SliceRange(2, -1)
    /\ parse_slice(SliceRange(2, -1), ValueCount(<<"z">>)).idx = <<>>
    /\ retval = ok
    /\ Appended = <<>>

\* C24: expand_to_command_and_args, when expand_string returns ok or wildcard_match,
\* makes the first completion the command and appends the others to the arguments
\* in their order; when it returns error or wildcard_no_match it modifies neither;
\* for a clean input the command becomes the input and the arguments are untouched.
C24_CommandAndArgs ==
    [][/\ (pc = "done" /\ pc' = "returned") =>
            IF retval \in {ok, wildcard_match}
            THEN /\ Appended # <<>> => (out_cmd' = Appended[1] /\ out_args' = out_args \o Tail(Appended))
                 /\ Appended = <<>> => (out_cmd' = out_cmd /\ out_args' = out_args)
            ELSE out_cmd' = out_cmd /\ out_args' = out_args
       /\ (pc = "command" /\ expand_is_clean(input)) =>
            (pc' = "returned" /\ retval' = ok /\ out_cmd' = input /\ out_args' = out_args)
       /\ pc = "stages" => (out_cmd' = out_cmd /\ out_args' = out_args)
      ]_allvars

\* {l,-a,b} has been split into the command l and the arguments -a and b after the
\* argument the caller had.
C24_Witness ==
    /\ pc = "returned"
    /\ input = <<"{", "l", ",", "-", "a", ",", "b", "}">>
    /\ retval = ok
    /\ out_cmd = <<"l">>
    /\ out_args = << <<"r">>, <<"-", "a">>, <<"b">> >>

\* The strings the invocations of stage k made so far appended to the scratch list,
\* in order.
StageOutputs(k) ==
    Concat([i \in 1..Len(trace) |-> IF trace[i].stage = k THEN trace[i].out ELSE <<>>])

IsPrefix(s1, s2) == Len(s1) <= Len(s2) /\ s1 = SubSeq(s2, 1, Len(s1))

\* Whether the driver is past the loop of stage k.
StageOver(k) == pc \in {"finish", "done"} \/ (pc = "stages" /\ stage > k)

Failed == \E i \in 1..Len(trace) : trace[i].result = error

\* C25: the stages are invoked in the order cmdsubst, variables, braces, home and
\* self, wildcards; the first on the input, each later one once on every completion
\* the stage before it put out, in that order; an invocation that returns error is
\* the last invocation of the call, and then the completions are not un-expanded and
\* handed to the caller.
C25_StageOrder ==
    /\ \A i \in 1..Len(trace), j \in 1..Len(trace) : i < j => trace[i].stage <= trace[j].stage
    /\ \A i \in 1..Len(trace) : trace[i].stage \in 0..4
    /\ trace # <<>> => StageInputs(0) = <<input>>
    /\ \A k \in 0..3 :
          /\ IsPrefix(StageInputs(k + 1), StageOutputs(k))
          /\ StageInputs(k + 1) # <<>> => StageOver(k)
          /\ (StageOver(k + 1) /\ ~Failed) => StageInputs(k + 1) = StageOutputs(k)
    /\ \A i \in 1..Len(trace) : trace[i].result = error => i = Len(trace)
    /\ (pc = "done" /\ Failed) => (retval = error /\ out_completions = out_before)

\* The wildcard stage was cancelled on the first of the two completions the brace
\* stage made of {*,a}: it was not invoked on the second.
C25_Witness ==
    /\ pc = "done"
    /\ input = <<"{", "*", ",", "a", "}">>
    /\ Len(StageOutputs(3)) = 2
    /\ Len(StageInputs(4)) = 1
    /\ retval = error

\* The elements of a set of numbers in ascending order.
RECURSIVE InOrder(_)
InOrder(S) ==
    IF S = {} THEN <<>>
    ELSE LET least == CHOOSE x \in S : \A y \in S : x <= y
         IN <<least>> \o InOrder(S \ {least})

\* Where the parenthesis that opens at b closes, in a token without quotes and
\* escapes; 0 if it does not.
ClosingOf(in, b) ==
    LET ends == {n \in (b + 1)..Len(in) : ParenDepth(in, n) = ParenDepth(in, b - 1)}
    IN IF ends = {} THEN 0 ELSE CHOOSE n \in ends : \A m \in ends : n <= m

\* The top-level substitutions of a token, left to right: where each begins and ends.
TopLevel(in) ==
    LET begins == {b \in 1..Len(in) :
                     in[b] = "(" /\ ParenDepth(in, b - 1) = 0 /\ ClosingOf(in, b) # 0}
    IN [i \in 1..Cardinality(begins) |->
          [begin |-> InOrder(begins)[i], end |-> ClosingOf(in, InOrder(begins)[i])]]

\* The i-th call of the executor failed or read too much, or the slice after the
\* i-th top-level substitution is not valid.
StopsAt(i) ==
    \/ ExecCalls[i].ret = -1
    \/ ExecCalls[i].status = STATUS_READ_TOO_MUCH
    \/ /\ At(input, TopLevel(input)[i].end) = "["
       /\ parse_slice(Tail0(input, TopLevel(input)[i].end), Len(ExecCalls[i].lines)).bad_pos # 0

\* C28: the executor is called on the top-level substitutions of a token from left
\* to right, at most once each; a substitution that returned no line does not keep
\* the ones to its right from being executed; after a call that failed or read too
\* much, or a substitution with an invalid slice, none further right is executed.
C28_LeftToRight ==
    (skip_cmdsubst \notin flags /\ StageResults(0) # <<>>) =>
        /\ Len(ExecCalls) <= Len(TopLevel(input))
        /\ \A i \in 1..Len(ExecCalls) :
              /\ ExecCalls[i].subcmd =
                   SubSeq(input, TopLevel(input)[i].begin + 1, TopLevel(input)[i].end - 1)
              /\ i < Len(ExecCalls) => ~StopsAt(i)
        /\ (Len(ExecCalls) < Len(TopLevel(input)) /\ ~Unmatched(input)) =>
              (ExecCalls # <<>> /\ StopsAt(Len(ExecCalls)))

\* In (c)(d) the executor returned no line for c and was then called for d.
C28_Witness ==
    /\ pc = "done"
    /\ input = <<"(", "c", ")", "(", "d", ")">>
    /\ Len(ExecCalls) = 2
    /\ ExecCalls[1].subcmd = <<"c">>
    /\ ExecCalls[1].lines = <<>>
    /\ ExecCalls[1].ret = 0
    /\ ExecCalls[2].subcmd = <<"d">>

\* The total length of the contents of a list of elements.
RECURSIVE TotalLength(_)
TotalLength(elements) ==
    IF elements = <<>> THEN 0
    ELSE Len(Head(elements).contents) + TotalLength(Tail(elements))

\* size() is the total length of the contents, within the limit if there is one,
\* and a discarded buffer is empty.
BufferConsistent ==
    /\ buffer.contents_size_ = TotalLength(buffer.elements_)
    /\ buffer.buffer_limit_ > 0 => buffer.contents_size_ <= buffer.buffer_limit_
    /\ buffer.discard => (buffer.elements_ = <<>> /\ buffer.contents_size_ = 0)

\* An append over the limit discards what was buffered, and an append to a discarded
\* buffer changes nothing.
AppendDiscards ==
    buffer_op'.op = "append" =>
        /\ (/\ ~buffer.discard
            /\ buffer.buffer_limit_ > 0
            /\ TotalLength(buffer.elements_) + Len(buffer_op'.contents) > buffer.buffer_limit_) =>
               (buffer'.discard /\ buffer'.elements_ = <<>> /\ buffer'.contents_size_ = 0)
        /\ buffer.discard => buffer' = buffer

\* C30: after any sequence of append, set_discard and reset_discard on a
\* separated_buffer_t, size() is the total length of the contents of its elements,
\* size() is at most limit() when limit() is not 0, and a discarded buffer has no
\* element and size 0; an append that would take the size over the limit discards
\* every element buffered, and appends after it change nothing until reset_discard.
C30_BufferInvariant == []BufferConsistent /\ [][AppendDiscards]_allvars

\* A buffer with limit 2 is discarded and empty after the append of three characters.
C30_Witness ==
    /\ pc = "buffer"
    /\ buffer.buffer_limit_ = 2
    /\ buffer.discard
    /\ buffer.elements_ = <<>>
    /\ buffer_op = [op |-> "append", contents |-> <<"a", "b", "c">>, separation |-> inferred]

=============================================================================
